---- MODULE Spec2Model ----
(***************************************************************************)
(* MyOS blueprint overlay: embryo detection, directory fusion, birth on    *)
(* write, the ACL policy that gates birth and the Birth Clinic's path      *)
(* validation, modelled from src/core/localBlueprintLayer.py and           *)
(* src/core/acl.py.                                                        *)
(*                                                                         *)
(* A Python str is a tuple of one-character strings, so that strip, lower, *)
(* startswith, split and percent-decoding are computed character by        *)
(* character.  A project-relative path of the overlay is a tuple of names  *)
(* (its '/'-separated segments), each name a str.                          *)
(***************************************************************************)
EXTENDS Integers, Sequences, FiniteSets, TLC

VARIABLES phys, cache, acl, last, q

vars == <<phys, cache, acl, last, q>>

\* Body applied to the value of v, v being computed once (a local variable
\* of the code that is assigned once and read several times)
With(v, Body(_)) == CHOOSE result \in {Body(x) : x \in {v}} : TRUE

-----------------------------------------------------------------------------
(* Python str primitives                                                   *)

Slash == <<"/">>

Star == <<"*">>

SlashStar == <<"/", "*">>

Write == <<"w", "r", "i", "t", "e">>

Read == <<"r", "e", "a", "d">>

\* str.startswith
StartsWith(s, pre) ==
    /\ Len(pre) <= Len(s)
    /\ SubSeq(s, 1, Len(pre)) = pre

\* the in operator on two str: sub occurs in s
Contains(s, sub) ==
    \E i \in 1..(Len(s) - Len(sub) + 1) : SubSeq(s, i, i + Len(sub) - 1) = sub

\* the characters str.strip() removes
IsSpace(ch) == ch \in {" ", "\t"}

RECURSIVE LStrip(_)
LStrip(s) ==
    IF s # <<>> /\ IsSpace(Head(s)) THEN LStrip(Tail(s)) ELSE s

RECURSIVE RStrip(_)
RStrip(s) ==
    IF s # <<>> /\ IsSpace(s[Len(s)]) THEN RStrip(SubSeq(s, 1, Len(s) - 1)) ELSE s

\* str.strip()
Strip(s) == RStrip(LStrip(s))

RECURSIVE LStripCh(_, _)
LStripCh(s, ch) ==
    IF s # <<>> /\ Head(s) = ch THEN LStripCh(Tail(s), ch) ELSE s

RECURSIVE RStripCh(_, _)
RStripCh(s, ch) ==
    IF s # <<>> /\ s[Len(s)] = ch THEN RStripCh(SubSeq(s, 1, Len(s) - 1), ch) ELSE s

\* str.strip(ch)
StripCh(s, ch) == RStripCh(LStripCh(s, ch), ch)

UpperAlphabet ==
    <<"A", "B", "C", "D", "E", "F", "G", "H", "I", "J", "K", "L", "M",
      "N", "O", "P", "Q", "R", "S", "T", "U", "V", "W", "X", "Y", "Z">>

LowerAlphabet ==
    <<"a", "b", "c", "d", "e", "f", "g", "h", "i", "j", "k", "l", "m",
      "n", "o", "p", "q", "r", "s", "t", "u", "v", "w", "x", "y", "z">>

UpperChars == {UpperAlphabet[i] : i \in DOMAIN UpperAlphabet}

LowerOf ==
    [ch \in UpperChars |->
        LowerAlphabet[CHOOSE i \in DOMAIN UpperAlphabet : UpperAlphabet[i] = ch]]

LowerChar(ch) == IF ch \in UpperChars THEN LowerOf[ch] ELSE ch

\* str.lower()
Lower(s) == [i \in 1..Len(s) |-> LowerChar(s[i])]

\* str.split(ch): the segments between the occurrences of ch
RECURSIVE SplitFrom(_, _, _)
SplitFrom(s, ch, acc) ==
    IF s = <<>> THEN <<acc>>
    ELSE IF Head(s) = ch THEN <<acc>> \o SplitFrom(Tail(s), ch, <<>>)
    ELSE SplitFrom(Tail(s), ch, Append(acc, Head(s)))

Split(s, ch) == SplitFrom(s, ch, <<>>)

\* ch.join(segs)
RECURSIVE Join(_, _)
Join(segs, ch) ==
    IF segs = <<>> THEN <<>>
    ELSE IF Len(segs) = 1 THEN segs[1]
    ELSE segs[1] \o <<ch>> \o Join(Tail(segs), ch)

-----------------------------------------------------------------------------
(* ACL policy (src/core/acl.py)                                            *)

\* _normalize_role
NormalizeRole(name) == Lower(Strip(name))

\* _normalize_path
NormalizePath(path) ==
    LET normalized == Strip(path) IN
    IF normalized = SlashStar THEN normalized
    ELSE RStripCh(IF StartsWith(normalized, Slash) THEN normalized
                  ELSE Slash \o normalized, "/")

\* the condition of ACLPolicy.can_access on one rule, with startswith
\* dropped to a plain prefix test (a rule on /a would match /ab)
RuleMatchesNoBoundary(rule, path_key) ==
    \/ rule.path = SlashStar
    \/ rule.path = path_key
    \/ StartsWith(path_key, rule.path)

\* the condition of ACLPolicy.can_access on one rule path
RuleMatches(rule, path_key) ==
    \/ rule.path = SlashStar
    \/ rule.path = path_key
    \/ StartsWith(path_key, rule.path \o Slash)

\* self.permissions.get(role_key, [])
RulesOf(policy, role_key) ==
    IF role_key \in DOMAIN policy.permissions THEN policy.permissions[role_key] ELSE {}

\* ACLPolicy.can_access
CanAccess(policy, role, path, right) ==
    LET role_key == NormalizeRole(role)
        path_key == NormalizePath(path)
        right_key == Lower(Strip(right))
    IN  IF role_key \notin policy.roles THEN FALSE
        ELSE \E rule \in RulesOf(policy, role_key) :
                /\ RuleMatches(rule, path_key)
                /\ (Star \in rule.rights \/ right_key \in rule.rights)

-----------------------------------------------------------------------------
(* The file system outside the project: the templates directory            *)
(* (MYOS_TEMPLATES_DIR) with the configured templates S and P, and a       *)
(* directory O beside them that no project configures.  Below its folder c *)
(* template P holds a normal folder n, a symbolic link l to it next to n,  *)
(* a folder m with such a link inside, and a folder d with a named pipe,   *)
(* which no copy primitive can read.                                       *)

nT == <<"T">>

nS == <<"S">>

nP == <<"P">>

nO == <<"O">>

nA == <<"a">>

nB == <<"b">>

nC == <<"c">>

nF == <<"f">>

nG == <<"g">>

nX == <<"x">>

nHid == <<".", "h">>

nN == <<"n">>

nL == <<"l">>

nM == <<"m">>

nD == <<"d">>

nPipe == <<"p">>

\* self.templates_dir
templates_dir == <<nT>>

\* self.template_names (ProjectConfig.templates, in configured order)
template_names == <<nS, nP>>

\* absolute path -> kind of the entry there
WorldFS ==
    (<<nT>> :> "dir") @@
    (<<nT, nS>> :> "dir") @@
    (<<nT, nS, nA>> :> "dir") @@
    (<<nT, nS, nA, nB>> :> "dir") @@
    (<<nT, nS, nA, nB, nG>> :> "file") @@
    (<<nT, nS, nA, nF>> :> "file") @@
    (<<nT, nS, nC>> :> "dir") @@
    (<<nT, nP>> :> "dir") @@
    (<<nT, nP, nA>> :> "dir") @@
    (<<nT, nP, nA, nX>> :> "file") @@
    (<<nT, nP, nC>> :> "dir") @@
    (<<nT, nP, nC, nN>> :> "dir") @@
    (<<nT, nP, nC, nN, nF>> :> "file") @@
    (<<nT, nP, nC, nL>> :> "link") @@
    (<<nT, nP, nC, nM>> :> "dir") @@
    (<<nT, nP, nC, nM, nL>> :> "link") @@
    (<<nT, nP, nC, nD>> :> "dir") @@
    (<<nT, nP, nC, nD, nF>> :> "file") @@
    (<<nT, nP, nC, nD, nPipe>> :> "fifo") @@
    (<<nT, nP, nC, nHid>> :> "dir") @@
    (<<nT, nO>> :> "dir") @@
    (<<nT, nO, nA>> :> "dir")

\* symbolic link -> the entry it points to (symlink_to)
LinkTarget ==
    (<<nT, nP, nC, nL>> :> <<nT, nP, nC, nN>>) @@
    (<<nT, nP, nC, nM, nL>> :> <<nT, nP, nC, nN>>)

\* the entry the operating system uses for path p: the target of a link
Follow(p) == IF WorldFS[p] = "link" THEN LinkTarget[p] ELSE p

IsPrefix(p, r) == Len(p) <= Len(r) /\ SubSeq(r, 1, Len(p)) = p

IsDirAt(fs, p) == p = <<>> \/ (p \in DOMAIN fs /\ fs[p] = "dir")

\* what the operating system reaches from directory cur through the
\* components segs ("" and "." stay, ".." goes to the parent, a symbolic
\* link is followed); "ENOENT" when a component is missing or a file is used
\* as a directory
RECURSIVE OSResolve(_, _)
OSResolve(cur, segs) ==
    IF segs = <<>> THEN cur
    ELSE IF ~IsDirAt(WorldFS, cur) THEN "ENOENT"
    ELSE LET seg == Head(segs) IN
         IF seg \in {<<>>, <<".">>} THEN OSResolve(cur, Tail(segs))
         ELSE IF seg = <<".", ".">>
              THEN OSResolve(IF cur = <<>> THEN cur ELSE SubSeq(cur, 1, Len(cur) - 1),
                             Tail(segs))
         ELSE IF Append(cur, seg) \in DOMAIN WorldFS
              THEN OSResolve(Follow(Append(cur, seg)), Tail(segs))
         ELSE "ENOENT"

\* Path.exists() of base joined with the components segs
ExistsAt(base, segs) == OSResolve(base, segs) # "ENOENT"

-----------------------------------------------------------------------------
(* Birth Clinic (src/core/localBlueprintLayer.py, class BirthClinic)       *)

\* str.replace(pat, rep): leftmost, non-overlapping occurrences
RECURSIVE ReplaceAll(_, _, _)
ReplaceAll(s, pat, rep) ==
    IF s = <<>> THEN <<>>
    ELSE IF StartsWith(s, pat)
         THEN rep \o ReplaceAll(SubSeq(s, Len(pat) + 1, Len(s)), pat, rep)
    ELSE <<Head(s)>> \o ReplaceAll(Tail(s), pat, rep)

HexDigits == <<"0", "1", "2", "3", "4", "5", "6", "7", "8", "9",
               "a", "b", "c", "d", "e", "f">>

IsHex(ch) == \E i \in DOMAIN HexDigits : HexDigits[i] = LowerChar(ch)

HexVal(ch) == (CHOOSE i \in DOMAIN HexDigits : HexDigits[i] = LowerChar(ch)) - 1

\* printable ASCII, code 32 to 126 (the grave accent, code 96, by name)
Ascii == <<" ", "!", "\"", "#", "$", "%", "&", "'", "(", ")", "*", "+", ",", "-", ".", "/",
           "0", "1", "2", "3", "4", "5", "6", "7", "8", "9", ":", ";", "<", "=", ">", "?",
           "@", "A", "B", "C", "D", "E", "F", "G", "H", "I", "J", "K", "L", "M", "N", "O",
           "P", "Q", "R", "S", "T", "U", "V", "W", "X", "Y", "Z", "[", "\\", "]", "^", "_",
           "<grave>", "a", "b", "c", "d", "e", "f", "g", "h", "i", "j", "k", "l", "m", "n", "o",
           "p", "q", "r", "s", "t", "u", "v", "w", "x", "y", "z", "{", "|", "}", "~">>

\* the character a decoded byte stands for; every byte outside printable
\* ASCII is some character other than the ones above, written "<other>"
ByteChar(hi, lo) ==
    LET b == HexVal(hi) * Len(HexDigits) + HexVal(lo) IN
    IF b >= Len(Ascii) + 32 \/ b < 32 THEN "<other>" ELSE Ascii[b - 31]

\* urllib.parse.unquote: one pass, %XX with two hex digits becomes the
\* character, anything else is kept
RECURSIVE Unquote(_)
Unquote(s) ==
    IF s = <<>> THEN <<>>
    ELSE IF Head(s) = "%" /\ Len(s) >= 3 /\ IsHex(s[2]) /\ IsHex(s[3])
         THEN <<ByteChar(s[2], s[3])>> \o Unquote(SubSeq(s, 4, Len(s)))
    ELSE <<Head(s)>> \o Unquote(Tail(s))

\* find_template_source, decoding
Decoded(embryo_path) ==
    LET d1 == ReplaceAll(ReplaceAll(embryo_path, <<"%", "2", "f">>, Slash),
                         <<"%", "2", "F">>, Slash)
        d2 == ReplaceAll(ReplaceAll(d1, <<"%", "5", "c">>, <<"\\">>),
                         <<"%", "5", "C">>, <<"\\">>)
        d3 == ReplaceAll(ReplaceAll(d2, <<"%", "2", "e">>, <<".">>),
                         <<"%", "2", "E">>, <<".">>)
    IN  Unquote(d3)

\* find_template_source, separators normalized
Normalized(embryo_path) == ReplaceAll(Decoded(embryo_path), <<"\\">>, Slash)

\* the checks reduced to the test for absolute paths
PathCheckAbsoluteOnly(n) ==
    IF \/ StartsWith(n, Slash)
       \/ (Len(n) > 2 /\ n[2] = ":" /\ n[3] = "/")
       \/ (Len(n) > 1 /\ n[1] = "/" /\ n[2] = "/")
    THEN "absolute"
    ELSE "ok"

\* the checks of find_template_source applied to the normalized path n:
\* the reason of the rejection, or "ok"
PathCheck(n) ==
    IF Contains(n, <<".", ".">>) THEN "traversal"
    ELSE IF \/ StartsWith(n, Slash)
            \/ (Len(n) > 2 /\ n[2] = ":" /\ n[3] = "/")
            \/ (Len(n) > 1 /\ n[1] = "/" /\ n[2] = "/")
         THEN "absolute"
    ELSE IF \E i \in DOMAIN Split(n, "/") :
               LET part == Split(n, "/")[i] IN part # <<>> /\ Head(part) = "."
         THEN "hidden"
    ELSE "ok"

\* the checks applied to the path as given, the decoded path only being
\* used for the lookup (validation before decoding)
ValidationOfRaw(embryo_path) ==
    IF embryo_path = <<>> THEN "empty" ELSE PathCheck(embryo_path)

\* find_template_source up to the template search: the reason of the
\* ValueError, or "ok"
Validation(embryo_path) ==
    IF embryo_path = <<>> THEN "empty" ELSE PathCheck(Normalized(embryo_path))

\* the template name check inside the search loop
ValidTemplateName(template_name) ==
    /\ template_name # <<>>
    /\ ~Contains(template_name, <<".", ".">>)
    /\ ~Contains(template_name, Slash)

\* the inner for/else of the search: every prefix of parts exists below
\* the directory of the template
HasPath(template_name, parts) ==
    \A i \in 1..Len(parts) :
        ExistsAt(Append(templates_dir, template_name), SubSeq(parts, 1, i))

\* the templates tried, in the order of the loop
SearchOrder == template_names

\* a search that goes on to the last template that has the path
RECURSIVE SearchLast(_, _)
SearchLast(i, parts) ==
    IF i > Len(SearchOrder) THEN [tag |-> "NO_TEMPLATE", probes |-> i - 1]
    ELSE IF ValidTemplateName(SearchOrder[i]) /\ HasPath(SearchOrder[i], parts)
            /\ SearchLast(i + 1, parts).tag # "ok"
         THEN [tag |-> "ok", probes |-> i,
               template |-> SearchOrder[i],
               lexical |-> Append(templates_dir, SearchOrder[i]) \o
                           SelectSeq(parts, LAMBDA part : part # <<>>),
               location |-> OSResolve(Append(templates_dir, SearchOrder[i]), parts)]
    ELSE SearchLast(i + 1, parts)

\* the loop of find_template_source over the templates, from index i on
RECURSIVE SearchFrom(_, _)
SearchFrom(i, parts) ==
    IF i > Len(SearchOrder) THEN [tag |-> "NO_TEMPLATE", probes |-> i - 1]
    ELSE IF ValidTemplateName(SearchOrder[i]) /\ HasPath(SearchOrder[i], parts)
         THEN [tag |-> "ok", probes |-> i,
               template |-> SearchOrder[i],
               lexical |-> Append(templates_dir, SearchOrder[i]) \o
                           SelectSeq(parts, LAMBDA part : part # <<>>),
               location |-> OSResolve(Append(templates_dir, SearchOrder[i]), parts)]
    ELSE SearchFrom(i + 1, parts)

\* BirthClinic.find_template_source
FindTemplateSource(embryo_path) ==
    IF Validation(embryo_path) # "ok"
    THEN [tag |-> "INVALID_PATH", why |-> Validation(embryo_path), probes |-> 0]
    ELSE SearchFrom(1, Split(StripCh(Normalized(embryo_path), "/"), "/"))

\* the entries of the world below location loc, as paths relative to loc
EntriesBelow(loc) ==
    {SubSeq(w, Len(loc) + 1, Len(w)) : w \in {v \in DOMAIN WorldFS : IsPrefix(loc, v) /\ v # loc}}

\* the names in the directory at location cur (iterdir, scandir)
Children(cur) ==
    {w[Len(w)] : w \in {v \in DOMAIN WorldFS : Len(v) = Len(cur) + 1 /\ IsPrefix(cur, v)}}

\* BirthClinic._validate_template_security: the walk below the source
\* meets a symbolic link
HasSymlink(loc) ==
    \E r \in EntriesBelow(loc) : WorldFS[loc \o r] = "link"

\* BirthClinic._embryo_to_physical_path, relative to the project root
\* (pathlib drops empty components)
EmbryoToPhysicalPath(embryo_path) ==
    SelectSeq(Split(StripCh(embryo_path, "/"), "/"), LAMBDA part : part # <<>>)

ProperPrefixes(p) == {SubSeq(p, 1, i) : i \in 1..(Len(p) - 1)}

\* Path.mkdir(parents=True, exist_ok=True) of directory d in the project
MkdirParents(ph, d) ==
    LET made == {r \in ProperPrefixes(d) \cup {d} : r # <<>> /\ r \notin DOMAIN ph} IN
    [r \in DOMAIN ph \cup made |-> IF r \in DOMAIN ph THEN ph[r] ELSE "dir"]

\* a copy that creates the directories of the template and none of its files
CopyTemplateDirsOnly(ph, loc, target) ==
    LET dirs == {r \in EntriesBelow(loc) : WorldFS[loc \o r] = "dir"}
        copied == {target \o r : r \in dirs} \cup {target}
    IN  [r \in DOMAIN ph \cup copied |-> IF r \in copied THEN "dir" ELSE ph[r]]

\* shutil.copytree(symlinks=False) below the directory at loc: the entries
\* it writes, as relative path and kind.  A link is copied as what it points
\* to, a directory with everything below it; a named pipe is not copied
\* (copy2 raises SpecialFileError, copytree goes on and raises at the end).
RECURSIVE CopyTree(_)
CopyTree(loc) ==
    UNION {LET t == Follow(Append(loc, name)) IN
           IF WorldFS[t] = "dir"
           THEN {[rel |-> <<name>>, kind |-> "dir"]} \cup
                {[rel |-> <<name>> \o e.rel, kind |-> e.kind] : e \in CopyTree(t)}
           ELSE IF WorldFS[t] = "file" THEN {[rel |-> <<name>>, kind |-> "file"]}
           ELSE {} : name \in Children(loc)}

\* shutil.copytree raises shutil.Error after the copy: an entry it came to
\* is a named pipe
RECURSIVE CopyRaises(_)
CopyRaises(loc) ==
    \E name \in Children(loc) :
        LET t == Follow(Append(loc, name)) IN
        \/ WorldFS[t] = "fifo"
        \/ WorldFS[t] = "dir" /\ CopyRaises(t)

\* BirthClinic._copy_template_safely: shutil.copytree(dirs_exist_ok=True)
\* of a directory, shutil.copy2 of a file
CopyTemplateSafely(ph, loc, target) ==
    IF WorldFS[loc] = "dir"
    THEN With(CopyTree(loc), LAMBDA tree :
         With({target \o e.rel : e \in tree} \cup {target}, LAMBDA copied :
             [r \in DOMAIN ph \cup copied |->
                IF r = target THEN "dir"
                ELSE IF r \in copied
                     THEN (CHOOSE e \in tree : target \o e.rel = r).kind
                ELSE ph[r]]))
    ELSE [r \in DOMAIN ph \cup {target} |-> IF r = target THEN "file" ELSE ph[r]]

\* the copy cannot be written: a component of the target path is a file,
\* or an entry to copy meets an entry of the other kind
CopyBlocked(ph, loc, target) ==
    \/ \E r \in ProperPrefixes(target) : r \in DOMAIN ph /\ ph[r] # "dir"
    \/ target \in DOMAIN ph /\ ph[target] # WorldFS[loc]
    \/ /\ WorldFS[loc] = "dir"
       /\ \E r \in EntriesBelow(loc) :
            target \o r \in DOMAIN ph /\ ph[target \o r] # WorldFS[loc \o r]

\* BirthClinic.give_birth: the outcome and the physical entries after it.
\* An error of the copy leaves what was copied before it.
GiveBirth(ph, embryo_path) ==
    With(FindTemplateSource(embryo_path), LAMBDA src :
    With(EmbryoToPhysicalPath(embryo_path), LAMBDA target :
        IF src.tag # "ok" THEN [res |-> src.tag, phys |-> ph]
        ELSE IF HasSymlink(src.location) THEN [res |-> "UNSAFE_TEMPLATE", phys |-> ph]
        ELSE IF CopyBlocked(ph, src.location, target) THEN [res |-> "IO_ERROR", phys |-> ph]
        ELSE [res |-> IF WorldFS[src.location] = "dir" /\ CopyRaises(src.location)
                      THEN "IO_ERROR" ELSE "ok",
              phys |-> CopyTemplateSafely(MkdirParents(ph, SubSeq(target, 1, Len(target) - 1)),
                                          src.location, target)]))

-----------------------------------------------------------------------------
(* Blueprint overlay (src/core/localBlueprintLayer.py, class Blueprint)    *)

\* the entries below the directory at loc for which is_dir() holds (a link
\* to a directory is one), with the same below each of them
RECURSIVE DirTree(_)
DirTree(loc) ==
    UNION {LET t == Follow(Append(loc, name)) IN
           IF WorldFS[t] = "dir"
           THEN {<<name>>} \cup {<<name>> \o r : r \in DirTree(t)}
           ELSE {} : name \in Children(loc)}

\* the directories below a template directory, as relative paths
\* (_load_template_tree, _load_embryo_tree_sub)
TemplateTree(template_name) ==
    LET loc == OSResolve(templates_dir, <<template_name>>) IN
    IF loc = "ENOENT" THEN {} ELSE DirTree(loc)

\* self.embryo_tree: the nodes of the merged tree, as paths
\* (_load_embryo_tree, _merge_trees)
embryo_tree == UNION {TemplateTree(template_names[i]) : i \in DOMAIN template_names}

\* the children of a node of the tree
TreeChildren(rel_path) ==
    {r[Len(r)] : r \in {t \in embryo_tree : Len(t) = Len(rel_path) + 1 /\ IsPrefix(rel_path, t)}}

\* physical.exists() for a project-relative path
Exists(ph, p) == p = <<>> \/ p \in DOMAIN ph

\* is_embryo with the cache consulted before the physical check
IsEmbryoCacheFirst(ph, c, path) ==
    IF path = <<>> THEN FALSE
    ELSE IF path \in DOMAIN c THEN c[path]
    ELSE IF Exists(ph, path) THEN FALSE
    ELSE path \in embryo_tree

\* Blueprint.is_embryo, the value returned
IsEmbryo(ph, c, path) ==
    IF path = <<>> THEN FALSE
    ELSE IF Exists(ph, path) THEN FALSE
    ELSE IF path \in DOMAIN c THEN c[path]
    ELSE path \in embryo_tree

\* Blueprint.is_embryo, the cache after the calls on every path of the set
\* paths (each call writes the entry of its own path only)
CacheAfter(ph, c, paths) ==
    LET touched == paths \ {<<>>} IN
    [r \in DOMAIN c \cup touched |->
        IF r \in touched THEN IsEmbryo(ph, c, r) ELSE c[r]]

\* _can_write_embryo as its docstring has it: no resolved role, no enforcement
CanWriteEmbryoUnenforced(a, rel_path) ==
    IF ~a.enabled \/ a.roles = {} THEN TRUE
    ELSE \E role \in a.roles :
            CanAccess(a.policy, role, Slash \o Join(rel_path, "/"), Write)

\* Blueprint._can_write_embryo
CanWriteEmbryo(a, rel_path) ==
    IF ~a.enabled THEN TRUE
    ELSE IF a.roles = {} THEN FALSE
    ELSE \E role \in a.roles :
            CanAccess(a.policy, role, Slash \o Join(rel_path, "/"), Write)

\* Blueprint.contains_embryos: the prefixes tested, up to the first embryo
RECURSIVE ContainsEmbryosFrom(_, _, _, _)
ContainsEmbryosFrom(ph, c, path, i) ==
    IF i > Len(path) THEN [res |-> FALSE, tested |-> {SubSeq(path, 1, j) : j \in 1..Len(path)}]
    ELSE IF IsEmbryo(ph, c, SubSeq(path, 1, i))
         THEN [res |-> TRUE, tested |-> {SubSeq(path, 1, j) : j \in 1..i}]
    ELSE ContainsEmbryosFrom(ph, c, path, i + 1)

ContainsEmbryos(ph, c, path) == ContainsEmbryosFrom(ph, c, path, 1)

\* Blueprint._birth_path, the loop: the number of leading segments each of
\* whose prefixes is an embryo
RECURSIVE EmbryoPartsFrom(_, _, _, _)
EmbryoPartsFrom(ph, c, path, i) ==
    IF i > Len(path) THEN Len(path)
    ELSE IF IsEmbryo(ph, c, SubSeq(path, 1, i)) THEN EmbryoPartsFrom(ph, c, path, i + 1)
    ELSE i - 1

EmbryoParts(ph, c, path) == EmbryoPartsFrom(ph, c, path, 1)

\* get_embryos_at without the write-access filter
GetEmbryosAtNoAcl(ph, c, a, rel_path) ==
    IF rel_path # <<>> /\ rel_path \notin embryo_tree THEN {}
    ELSE {name \in TreeChildren(rel_path) : IsEmbryo(ph, c, Append(rel_path, name))}

\* Blueprint.get_embryos_at, the names returned
GetEmbryosAt(ph, c, a, rel_path) ==
    IF rel_path # <<>> /\ rel_path \notin embryo_tree THEN {}
    ELSE {name \in TreeChildren(rel_path) :
            /\ IsEmbryo(ph, c, Append(rel_path, name))
            /\ CanWriteEmbryo(a, Append(rel_path, name))}

\* Blueprint.get_embryos_at, the paths on which it calls is_embryo
EmbryosAtTested(rel_path) ==
    IF rel_path # <<>> /\ rel_path \notin embryo_tree THEN {}
    ELSE {Append(rel_path, name) : name \in TreeChildren(rel_path)}

RECURSIVE SetToSeq(_)
SetToSeq(S) ==
    IF S = {} THEN <<>>
    ELSE LET e == CHOOSE e \in S : TRUE IN <<e>> \o SetToSeq(S \ {e})

InSeq(e, seq) == \E i \in DOMAIN seq : seq[i] = e

\* os.listdir of a physical directory
ListDir(ph, path) ==
    {r[Len(r)] : r \in {t \in DOMAIN ph : Len(t) = Len(path) + 1 /\ IsPrefix(path, t)}}

\* Blueprint.readdir, the entries returned for a physical directory
ReadDirEntries(ph, c, a, path) ==
    LET physical == <<<<".">>, <<".", ".">>>> \o
                    SetToSeq({item \in ListDir(ph, path) : Head(item) # "."})
        embryos_here == SetToSeq(GetEmbryosAt(ph, c, a, path))
    IN  physical \o SelectSeq(embryos_here, LAMBDA embryo : ~InSeq(embryo, physical))

\* Blueprint.readdir: outcome, entries, and the paths is_embryo was called on
ReadDir(ph, c, a, path) ==
    IF ~IsDirAt(ph, path) THEN [res |-> "ENOTDIR", entries |-> <<>>, tested |-> {}]
    ELSE [res |-> "ok", entries |-> ReadDirEntries(ph, c, a, path),
          tested |-> EmbryosAtTested(path)]

\* Blueprint._birth_path: outcome, embryo prefix E, physical entries after
\* it, and the paths is_embryo was called on
BirthPath(ph, c, a, path) ==
    With(EmbryoParts(ph, c, path), LAMBDA n :
    With(SubSeq(path, 1, n), LAMBDA E :
    With({SubSeq(path, 1, j) : j \in 1..(IF n < Len(path) THEN n + 1 ELSE n)}, LAMBDA tested :
        IF n = 0 THEN [res |-> "INVALID", E |-> <<>>, phys |-> ph, tested |-> tested]
        ELSE IF ~CanWriteEmbryo(a, E)
             THEN [res |-> "EACCES", E |-> E, phys |-> ph, tested |-> tested]
        ELSE With(GiveBirth(ph, Join(E, "/")), LAMBDA born :
                [res |-> born.res, E |-> E, phys |-> born.phys, tested |-> tested]))))

\* the test of mkdir and create, is_embryo(rel_path) or contains_embryos(path),
\* followed by _birth_path when it is true
BirthOnWrite(ph, c, a, path) ==
    With(IsEmbryo(ph, c, path), LAMBDA own :
    With(ContainsEmbryos(ph, c, path), LAMBDA inner :
    With({path} \cup (IF own THEN {} ELSE inner.tested), LAMBDA tested :
        IF own \/ inner.res
        THEN With(BirthPath(ph, c, a, path), LAMBDA b :
                [res |-> b.res, E |-> b.E, phys |-> b.phys, tested |-> tested \cup b.tested])
        ELSE [res |-> "ok", E |-> <<>>, phys |-> ph, tested |-> tested])))

\* physical.mkdir(mode, parents=True, exist_ok=True)
PhysMkdir(ph, path) ==
    IF \E r \in ProperPrefixes(path) : r \in DOMAIN ph /\ ph[r] # "dir"
    THEN [res |-> "ENOTDIR", phys |-> ph]
    ELSE IF path \in DOMAIN ph /\ ph[path] # "dir" THEN [res |-> "EEXIST", phys |-> ph]
    ELSE [res |-> "ok", phys |-> MkdirParents(ph, path)]

\* os.open(physical, O_WRONLY | O_CREAT | O_TRUNC, mode)
PhysOpen(ph, path) ==
    LET parent == SubSeq(path, 1, Len(path) - 1) IN
    IF \E r \in ProperPrefixes(path) : r \in DOMAIN ph /\ ph[r] # "dir"
    THEN [res |-> "ENOTDIR", phys |-> ph]
    ELSE IF ~Exists(ph, parent) THEN [res |-> "ENOENT", phys |-> ph]
    ELSE IF path \in DOMAIN ph /\ ph[path] = "dir" THEN [res |-> "EISDIR", phys |-> ph]
    ELSE [res |-> "ok",
          phys |-> [r \in DOMAIN ph \cup {path} |-> IF r = path THEN "file" ELSE ph[r]]]

\* Blueprint.mkdir
MkdirOp(ph, c, a, path) ==
    With(BirthOnWrite(ph, c, a, path), LAMBDA b :
    With(PhysMkdir(b.phys, path), LAMBDA m :
        [res |-> IF b.res # "ok" THEN b.res ELSE m.res,
         E |-> b.E,
         phys |-> IF b.res # "ok" THEN b.phys ELSE m.phys,
         cache |-> CacheAfter(ph, c, b.tested)]))

\* Blueprint.create
CreateOp(ph, c, a, path) ==
    With(BirthOnWrite(ph, c, a, path), LAMBDA b :
    With(PhysOpen(b.phys, path), LAMBDA o :
        [res |-> IF b.res # "ok" THEN b.res ELSE o.res,
         E |-> b.E,
         phys |-> IF b.res # "ok" THEN b.phys ELSE o.phys,
         cache |-> CacheAfter(ph, c, b.tested)]))

\* Blueprint.getattr: which stat is returned, or ENOENT
GetattrOp(ph, c, a, path) ==
    With(SubSeq(path, 1, Len(path) - 1), LAMBDA parent :
    With(CacheAfter(ph, c, {path}), LAMBDA c1 :
        IF IsEmbryo(ph, c, path) /\ FindTemplateSource(Join(path, "/")).tag = "ok"
        THEN [res |-> "embryo_stat", cache |-> c1]
        ELSE IF Exists(ph, path) THEN [res |-> "physical_stat", cache |-> c1]
        ELSE IF path # <<>> /\ path[Len(path)] \in GetEmbryosAt(ph, c1, a, parent)
             THEN [res |-> "embryo_stat", cache |-> CacheAfter(ph, c1, EmbryosAtTested(parent))]
        ELSE [res |-> "ENOENT",
              cache |-> IF path = <<>> THEN c1 ELSE CacheAfter(ph, c1, EmbryosAtTested(parent))]))

-----------------------------------------------------------------------------
(* The overlay as a state machine                                          *)

rW == <<"w">>

\* ACLPolicy of a project whose ACLs.md gives role w the rules given
PolicyOf(rules) ==
    [roles |-> {rW, nA, nC},
     permissions |-> (rW :> rules) @@ (nA :> {}) @@ (nC :> {})]

\* no ACLs.md
AclOff == [enabled |-> FALSE, roles |-> {}, policy |-> PolicyOf({})]

\* ACLs.md present, MYOS_ROLES=w, w may write below /a
AclWriterA ==
    [enabled |-> TRUE, roles |-> {rW},
     policy |-> PolicyOf({[path |-> <<"/", "a">>, rights |-> {Write}]})]

\* ACLs.md present, MYOS_ROLES=w, w may write below /a/b and read /a
AclWriterAB ==
    [enabled |-> TRUE, roles |-> {rW},
     policy |-> PolicyOf({[path |-> <<"/", "a", "/", "b">>, rights |-> {Write}],
                          [path |-> <<"/", "a">>, rights |-> {Read}]})]

\* ACLs.md present, no role resolved for the caller
AclNoRoles ==
    [enabled |-> TRUE, roles |-> {},
     policy |-> PolicyOf({[path |-> SlashStar, rights |-> {Star}]})]

AclConfigs == {AclOff, AclWriterA, AclWriterAB, AclNoRoles}

\* the paths mkdir and create are called with
WritePaths == {<<nA, nB, nX>>, <<nA, nB>>, <<nA, nF>>, <<nC>>}

\* the paths getattr is called with
StatPaths == {<<nA>>, <<nA, nB>>, <<nC>>}

\* the paths readdir is called with
ListPaths == {<<>>, <<nA>>}

\* the directories other programs create or remove below the project root
ExtPaths == {<<nA>>, <<nC>>}

\* the project directory at mount: a directory x and a hidden directory .h
Phys0 == (<<nX>> :> "dir") @@ (<<nHid>> :> "dir")

Mounted == [op |-> "mount", path |-> <<>>, res |-> "ok", E |-> <<>>]

NoCall == [fn |-> "none"]

Init ==
    /\ phys = Phys0
    /\ cache = <<>>
    /\ acl \in AclConfigs
    /\ last = Mounted
    /\ q = NoCall

Getattr(path) ==
    \E r \in {GetattrOp(phys, cache, acl, path)} :
    /\ cache' = r.cache
    /\ last' = [op |-> "getattr", path |-> path, res |-> r.res, E |-> <<>>]
    /\ UNCHANGED <<phys, acl, q>>

Readdir(path) ==
    \E r \in {ReadDir(phys, cache, acl, path)} :
    /\ cache' = CacheAfter(phys, cache, r.tested)
    /\ last' = [op |-> "readdir", path |-> path, res |-> r.res, E |-> <<>>]
    /\ UNCHANGED <<phys, acl, q>>

Mkdir(path) ==
    \E r \in {MkdirOp(phys, cache, acl, path)} :
    /\ phys' = r.phys
    /\ cache' = r.cache
    /\ last' = [op |-> "mkdir", path |-> path, res |-> r.res, E |-> r.E]
    /\ UNCHANGED <<acl, q>>

Create(path) ==
    \E r \in {CreateOp(phys, cache, acl, path)} :
    /\ phys' = r.phys
    /\ cache' = r.cache
    /\ last' = [op |-> "create", path |-> path, res |-> r.res, E |-> r.E]
    /\ UNCHANGED <<acl, q>>

\* another program creates a directory below the project root
ExtCreate(path) ==
    /\ path \notin DOMAIN phys
    /\ IsDirAt(phys, SubSeq(path, 1, Len(path) - 1))
    /\ phys' = [r \in DOMAIN phys \cup {path} |-> IF r = path THEN "dir" ELSE phys[r]]
    /\ last' = [op |-> "ext_create", path |-> path, res |-> "ok", E |-> <<>>]
    /\ UNCHANGED <<cache, acl, q>>

\* another program removes an entry, with everything below it
ExtRemove(path) ==
    /\ path \in DOMAIN phys
    /\ phys' = [r \in {t \in DOMAIN phys : ~IsPrefix(path, t)} |-> phys[r]]
    /\ last' = [op |-> "ext_remove", path |-> path, res |-> "ok", E |-> <<>>]
    /\ UNCHANGED <<cache, acl, q>>

Next ==
    \/ \E path \in StatPaths : Getattr(path)
    \/ \E path \in ListPaths : Readdir(path)
    \/ \E path \in WritePaths : Mkdir(path)
    \/ \E path \in WritePaths : Create(path)
    \/ \E path \in ExtPaths : ExtCreate(path)
    \/ \E path \in ExtPaths : ExtRemove(path)

Spec == Init /\ [][Next]_vars

-----------------------------------------------------------------------------
(* ACLPolicy.can_access applied to drawn arguments                         *)

AclRulePaths == {SlashStar, <<"/", "a">>, <<"/", "a", "/", "b">>, <<>>}

AclRuleRights == {{Write}, {Read}, {Star}, {Read, Write}}

AclRules == {[path |-> p, rights |-> r] : p \in AclRulePaths, r \in AclRuleRights}

\* policies whose role w has at most two rules; a and c are known roles
\* without rules, r is no role of the policy
AclPolicies == {PolicyOf(rules) : rules \in {rs \in SUBSET AclRules : Cardinality(rs) <= 2}}

AclQueryRoles == {rW, <<"W">>, <<"r">>, nA}

AclQueryPaths ==
    {<<"/", "a">>, <<"/", "a", "/">>, <<"a">>, <<"/", "a", "b">>, <<"/", "a", "/", "b">>,
     <<"/", "a", "/", "b", "/", "c">>, <<"/", "a", "/", "b", "b">>, <<"/", "A">>,
     SlashStar, Slash, <<"/", "c">>, <<" ", "/", "a", " ">>}

AclQueryRights == {Write, <<"W", "R", "I", "T", "E">>, Read, Star}

InitACL ==
    /\ phys = Phys0
    /\ cache = <<>>
    /\ acl = AclOff
    /\ last = Mounted
    /\ q \in {[fn |-> "can_access", policy |-> po, role |-> ro, path |-> pa, right |-> ri,
               state |-> "called", out |-> "pending"] :
                po \in AclPolicies, ro \in AclQueryRoles, pa \in AclQueryPaths,
                ri \in AclQueryRights}

CanAccessCall ==
    /\ q.fn = "can_access"
    /\ q.state = "called"
    /\ q' = [q EXCEPT !.state = "returned",
                      !.out = CanAccess(q.policy, q.role, q.path, q.right)]
    /\ UNCHANGED <<phys, cache, acl, last>>

NextACL == CanAccessCall

SpecACL == InitACL /\ [][NextACL]_vars

-----------------------------------------------------------------------------
(* BirthClinic.give_birth applied to drawn embryo paths                    *)

MaxTokens == 4

ClinicTokens ==
    {<<"a">>, <<"b">>, <<"x">>, <<".">>, <<"/">>, <<"\\">>, <<":">>,
     <<"%", "2", "e">>, <<"%", "2", "F">>, <<"%", "3", "a">>}

RECURSIVE Concat(_)
Concat(tokens) == IF tokens = <<>> THEN <<>> ELSE Head(tokens) \o Concat(Tail(tokens))

ClinicInputs ==
    {Concat(ts) : ts \in UNION {[1..n -> ClinicTokens] : n \in 0..MaxTokens}}

InitClinic ==
    /\ phys = Phys0
    /\ cache = <<>>
    /\ acl = AclOff
    /\ last = Mounted
    /\ q \in {[fn |-> "give_birth", arg |-> s, state |-> "called", out |-> "pending",
               src |-> "pending"] : s \in ClinicInputs}

GiveBirthCall ==
    /\ q.fn = "give_birth"
    /\ q.state = "called"
    /\ q' = [q EXCEPT !.state = "returned",
                      !.out = GiveBirth(phys, q.arg).res,
                      !.src = FindTemplateSource(q.arg)]
    /\ phys' = GiveBirth(phys, q.arg).phys
    /\ UNCHANGED <<cache, acl, last>>

NextClinic == GiveBirthCall

SpecClinic == InitClinic /\ [][NextClinic]_vars

-----------------------------------------------------------------------------
(* Properties of can_access and of the Birth Clinic                        *)

Returned(fn) == q.fn = fn /\ q.state = "returned"

\* rule path r ends at a segment boundary of the query path p: p = r + "/" + suffix
BoundaryPrefix(r, p) ==
    \E k \in 1..Len(p) : k = Len(r) + 1 /\ p[k] = "/" /\ SubSeq(p, 1, k - 1) = r

C8_Granted ==
    LET role == Lower(q.role)
        query == NormalizePath(q.path)
        right == Lower(q.right)
    IN  /\ role \in q.policy.roles
        /\ \E rule \in q.policy.permissions[role] :
              /\ \/ rule.path = SlashStar
                 \/ rule.path = query
                 \/ BoundaryPrefix(rule.path, query)
              /\ \/ Star \in rule.rights
                 \/ right \in rule.rights

\* C8: can_access(role, path, right) is true if and only if the lower-cased
\* role is a known role and one of its rules has a path that is /*, equals the
\* normalized query path or is a prefix of it ending at a segment boundary,
\* and rights that contain * or the lower-cased requested right.
C8_CanAccessIff == Returned("can_access") => (q.out <=> C8_Granted)

\* C8 witness: role W is granted WRITE on /a/b/c by the rule of w on /a/b
C8_Witness ==
    /\ Returned("can_access")
    /\ q.out = TRUE
    /\ q.role = <<"W">>
    /\ q.right = <<"W", "R", "I", "T", "E">>
    /\ q.path = <<"/", "a", "/", "b", "/", "c">>
    /\ q.policy = PolicyOf({[path |-> <<"/", "a", "/", "b">>, rights |-> {Write}]})

\* the embryo path percent-decoded, backslashes replaced by /
C9_Plain == ReplaceAll(Unquote(q.arg), <<"\\">>, Slash)

C9_Segments == {Split(C9_Plain, "/")[i] : i \in DOMAIN Split(C9_Plain, "/")}

C9_Forbidden ==
    \/ <<".", ".">> \in C9_Segments
    \/ StartsWith(C9_Plain, Slash)
    \/ (Len(C9_Plain) >= 3 /\ C9_Plain[2] = ":" /\ C9_Plain[3] = "/")
    \/ \E seg \in C9_Segments : seg # <<>> /\ Head(seg) = "."

\* C9: give_birth rejects with INVALID_PATH every embryo path that, once
\* percent-decoded and with backslashes replaced by /, has a .. segment, is
\* absolute (/..., X:/..., //server/...) or has a segment starting with a dot;
\* no template has been looked up and no physical entry has changed.
C9_RejectsForbidden ==
    (Returned("give_birth") /\ C9_Forbidden) =>
        (q.out = "INVALID_PATH" /\ q.src.probes = 0 /\ phys = Phys0)

\* C9 witness: the encoded traversal a/%2e%2e has been rejected
C9_Witness ==
    /\ Returned("give_birth")
    /\ q.arg = <<"a", "/", "%", "2", "e", "%", "2", "e">>
    /\ q.out = "INVALID_PATH"

\* C10: the template source resolved for an accepted embryo path lies strictly
\* below the directory of one of the configured templates.
C10_SourceInsideTemplates ==
    (Returned("give_birth") /\ q.src.tag = "ok") =>
        \E i \in DOMAIN template_names :
            LET dir == Append(templates_dir, template_names[i]) IN
            /\ IsPrefix(dir, q.src.location)
            /\ q.src.location # dir
            /\ IsPrefix(dir, q.src.lexical)
            /\ \A k \in DOMAIN q.src.lexical : q.src.lexical[k] # <<".", ".">>

\* C10 witness: a%2Fb has been accepted and resolved to S/a/b
C10_Witness ==
    /\ Returned("give_birth")
    /\ q.arg = <<"a", "%", "2", "F", "b">>
    /\ q.src.tag = "ok"
    /\ q.src.location = <<nT, nS, nA, nB>>
    /\ q.out = "ok"

-----------------------------------------------------------------------------
(* Properties of the overlay                                               *)

\* the paths the properties range over: every path an operation is called
\* with, every node of the embryo tree, and their prefixes
ProbePaths ==
    UNION {{SubSeq(p, 1, i) : i \in 1..Len(p)} :
            p \in WritePaths \cup StatPaths \cup ExtPaths \cup embryo_tree}

ParentOf(p) == SubSeq(p, 1, Len(p) - 1)

\* C1: in every reachable state is_embryo(p) is true if and only if no
\* physical entry exists at p and the embryo tree has a node at p, whatever
\* the embryo cache holds.
C1_IsEmbryoIffDefinition ==
    \A p \in ProbePaths :
        IsEmbryo(phys, cache, p) <=> (p \notin DOMAIN phys /\ p \in embryo_tree)

\* C2 as stated: once p has a physical entry is_embryo(p) is false after
\* every further step, whichever it is.
C2_NeverEmbryoAgain ==
    [][\A p \in ProbePaths : p \in DOMAIN phys => ~IsEmbryo(phys', cache', p)]_vars

\* C2: once p has a physical entry, every overlay operation and every
\* out-of-band creation leaves p physical and is_embryo(p) false; only an
\* out-of-band removal ends this.
C2_NotEmbryoUntilRemoved ==
    [][\A p \in ProbePaths :
          (p \in DOMAIN phys /\ last'.op # "ext_remove") =>
              (p \in DOMAIN phys' /\ ~IsEmbryo(phys', cache', p))]_vars

\* C2 witness: a was seen as an embryo (cache entry true) and has been born
\* by a write since
C2_Witness ==
    /\ last.op \in {"mkdir", "create"}
    /\ last.res = "ok"
    /\ <<nA>> \in DOMAIN phys
    /\ <<nA>> \in DOMAIN cache
    /\ cache[<<nA>>] = TRUE

\* the names the listing of the directory L is examined for
NamesAt(L) == ListDir(phys, L) \cup TreeChildren(L) \cup {nX, nF}

Listing(L) == ReadDirEntries(phys, cache, acl, L)

Count(n, seq) == Cardinality({i \in DOMAIN seq : seq[i] = n})

\* C3: readdir of a physical directory L returns exactly ".", "..", the
\* non-hidden physical children of L and the names n with a tree node at L/n,
\* no physical entry at L/n and write access to L/n, each of them once.
C3_ListingExact ==
    \A L \in ListPaths : IsDirAt(phys, L) =>
        LET expected ==
                {<<".">>, <<".", ".">>}
                \cup {n \in ListDir(phys, L) : Head(n) # "."}
                \cup {n \in TreeChildren(L) :
                        /\ Append(L, n) \notin DOMAIN phys
                        /\ CanWriteEmbryo(acl, Append(L, n))}
        IN  /\ {Listing(L)[i] : i \in DOMAIN Listing(L)} = expected
            /\ Len(Listing(L)) = Cardinality(expected)

IsEmbryoPrefix(E, path) ==
    /\ E # <<>>
    /\ IsPrefix(E, path)
    /\ \A j \in 1..Len(E) : IsEmbryo(phys, cache, SubSeq(path, 1, j))
    /\ Len(E) = Len(path) \/ ~IsEmbryo(phys, cache, SubSeq(path, 1, Len(E) + 1))

\* the template source of the tree node p: p below the first of the
\* configured templates that has it
SourceOf(p) ==
    LET has == {i \in DOMAIN template_names :
                  (Append(templates_dir, template_names[i]) \o p) \in DOMAIN WorldFS}
        first == CHOOSE i \in has : \A k \in has : i <= k
    IN  Append(templates_dir, template_names[first]) \o p

\* every directory and file of the template source of p exists below p
Materialized(p) ==
    /\ IsDirAt(phys, p)
    /\ \A r \in EntriesBelow(SourceOf(p)) :
          /\ (p \o r) \in DOMAIN phys
          /\ phys[p \o r] = WorldFS[SourceOf(p) \o r]

WriteSucceeded == last.op \in {"mkdir", "create"} /\ last.res = "ok"

\* the state a birth on write has to leave behind for the embryo prefix E
Born(E) ==
    /\ Materialized(E)
    /\ last.path \in DOMAIN phys
    /\ phys[last.path] = (IF last.op = "mkdir" THEN "dir" ELSE "file")
    /\ ~IsEmbryo(phys, cache, E)
    /\ IsDirAt(phys, ParentOf(E))
    /\ Count(E[Len(E)], Listing(ParentOf(E))) = 1

\* C5: after create(E/R) or mkdir(E/R) has succeeded, where E was the embryo
\* prefix before the call and the caller has write access to E, E is a
\* physical directory with every directory and file of its template source,
\* the requested entry exists at E/R, is_embryo(E) is false and the listing of
\* the parent of E has the name of E once.
C5_BirthOnWrite ==
    [][\A E \in ProbePaths :
          (WriteSucceeded' /\ IsEmbryoPrefix(E, last'.path) /\ CanWriteEmbryo(acl, E))
              => Born(E)']_vars

\* C5 witness: create(a/f) has given birth to a; the file f of the template
\* has been opened, b and b/g are there
C5_Witness ==
    /\ last = [op |-> "create", path |-> <<nA, nF>>, res |-> "ok", E |-> <<nA>>]
    /\ <<nA, nB, nG>> \in DOMAIN phys
    /\ phys[<<nA, nF>>] = "file"
    /\ acl = AclWriterA

\* C6: after a successful mkdir or create through a path whose embryo prefix
\* E has two or more segments, every embryo traversed (every prefix of E) is a
\* physical directory with the contents of its own template source.
C6_EveryTraversedEmbryoBorn ==
    [][\A E \in ProbePaths :
          (WriteSucceeded' /\ IsEmbryoPrefix(E, last'.path) /\ Len(E) >= 2)
              => \A j \in 1..Len(E) : Materialized(SubSeq(E, 1, j))']_vars

\* no effective role of the caller has the write right on E
NoWriteRight(E) ==
    ~\E role \in acl.roles : CanAccess(acl.policy, role, Slash \o Join(E, "/"), Write)

-----------------------------------------------------------------------------
(* The overlay on the folders of template P below c: births from a         *)
(* template with symbolic links and with an entry that cannot be copied    *)

\* ACLs.md grants role w the write right below /c; the caller has role w
AclWriterC ==
    [enabled |-> TRUE, roles |-> {rW},
     policy |-> PolicyOf({[path |-> <<"/", "c">>, rights |-> {Write}]})]

UnsafeWritePaths == {<<nC, nN>>, <<nC, nL>>, <<nC, nM>>, <<nC, nD>>}

UnsafeCreatePaths == {<<nC, nN, nF>>}

UnsafeStatPaths == {<<nC, nL>>, <<nC, nHid>>}

UnsafeListPaths == {<<>>, <<nC>>}

InitUnsafe ==
    /\ phys = Phys0
    /\ cache = <<>>
    /\ acl \in {AclOff, AclWriterC, AclNoRoles}
    /\ last = Mounted
    /\ q = NoCall

NextUnsafe ==
    \/ \E path \in UnsafeStatPaths : Getattr(path)
    \/ \E path \in UnsafeListPaths : Readdir(path)
    \/ \E path \in UnsafeWritePaths : Mkdir(path)
    \/ \E path \in UnsafeCreatePaths : Create(path)
    \/ ExtRemove(<<nC>>)

SpecUnsafe == InitUnsafe /\ [][NextUnsafe]_vars

-----------------------------------------------------------------------------
(* Properties of births from template P                                    *)

UnsafeProbePaths ==
    UNION {{SubSeq(p, 1, i) : i \in 1..Len(p)} : p \in UnsafeWritePaths \cup UnsafeCreatePaths}

\* the template that provides the embryo E has a symbolic link somewhere
\* below its directory
ProvidedBySymlinkTemplate(E) ==
    LET src == FindTemplateSource(Join(E, "/")) IN
    /\ src.tag = "ok"
    /\ HasSymlink(Append(templates_dir, src.template))

\* C11: a mkdir or create whose embryo prefix E is provided by a template
\* that has a symbolic link at any depth, inside the source of E or beside
\* it, is refused with UNSAFE_TEMPLATE and nothing is copied.
C11_SymlinkTemplateRefused ==
    [][\A E \in UnsafeProbePaths :
          (/\ last'.op \in {"mkdir", "create"}
           /\ IsEmbryoPrefix(E, last'.path)
           /\ CanWriteEmbryo(acl, E)
           /\ ProvidedBySymlinkTemplate(E))
              => (last'.res = "UNSAFE_TEMPLATE" /\ phys' = phys)]_vars

\* the path of the template source of E goes through a symbolic link entry
SourceThroughLink(E) ==
    LET src == FindTemplateSource(Join(E, "/")) IN
    /\ src.tag = "ok"
    /\ \E i \in 1..Len(src.lexical) :
          /\ SubSeq(src.lexical, 1, i) \in DOMAIN WorldFS
          /\ WorldFS[SubSeq(src.lexical, 1, i)] = "link"

\* C12: no physical entry is a symbolic link after any step, and no mkdir or
\* create that writes below its embryo prefix E has copied from a source
\* reached through a symbolic link entry of the template.
C12_NoCopyThroughLink ==
    [][/\ \A r \in DOMAIN phys' : phys'[r] # "link"
       /\ \A E \in UnsafeProbePaths :
             (/\ last'.op \in {"mkdir", "create"}
              /\ IsEmbryoPrefix(E, last'.path)
              /\ E \in DOMAIN phys')
                 => ~SourceThroughLink(E)]_vars

BirthFailures == {"INVALID_PATH", "NO_TEMPLATE", "UNSAFE_TEMPLATE", "EACCES", "IO_ERROR"}

\* C13: when the birth of the embryo prefix E of a mkdir or create fails, the
\* physical entries and the embryo cache are as before the call, E is still
\* an embryo, and E is listed in its parent if it was before.
C13_FailedBirthChangesNothing ==
    [][\A E \in UnsafeProbePaths :
          (/\ last'.op \in {"mkdir", "create"}
           /\ IsEmbryoPrefix(E, last'.path)
           /\ last'.res \in BirthFailures)
              => (/\ phys' = phys
                  /\ cache' = cache
                  /\ IsEmbryo(phys', cache', E)
                  /\ E[Len(E)] \in GetEmbryosAt(phys, cache, acl, ParentOf(E))
                        => E[Len(E)] \in GetEmbryosAt(phys', cache', acl, ParentOf(E)))]_vars

-----------------------------------------------------------------------------
(* Blueprint.mkdir called by two threads of the FUSE host at once.  Each   *)
(* thread runs the statements of mkdir, _birth_path and give_birth in      *)
(* order; the code takes no lock, so the threads interleave between the    *)
(* steps below: the embryo test, the start of give_birth, the copy of each *)
(* template entry, the end of the copy, and the final physical mkdir.      *)

Threads == {"t1", "t2"}

ConcPaths == {<<nA>>, <<nA, nB>>}

Idle == [pc |-> "idle", path |-> <<>>, E |-> <<>>, todo |-> {}]

\* mkdir up to the call of give_birth: the test is_embryo(rel_path) or
\* contains_embryos(path), the loop of _birth_path and its ACL check.
\* "birth": give_birth(E) is next; "none": no embryo in the path.
BirthPlan(ph, c, a, path) ==
    With(IsEmbryo(ph, c, path), LAMBDA own :
    With(ContainsEmbryos(ph, c, path), LAMBDA inner :
    With(EmbryoParts(ph, c, path), LAMBDA n :
    With({path} \cup (IF own THEN {} ELSE inner.tested), LAMBDA tested :
        IF ~(own \/ inner.res) THEN [res |-> "none", E |-> <<>>, tested |-> tested]
        ELSE With(tested \cup {SubSeq(path, 1, j) :
                                j \in 1..(IF n < Len(path) THEN n + 1 ELSE n)}, LAMBDA all :
             IF n = 0 THEN [res |-> "INVALID", E |-> <<>>, tested |-> all]
             ELSE IF ~CanWriteEmbryo(a, SubSeq(path, 1, n))
                  THEN [res |-> "EACCES", E |-> SubSeq(path, 1, n), tested |-> all]
             ELSE [res |-> "birth", E |-> SubSeq(path, 1, n), tested |-> all])))))

InitConc ==
    /\ phys = Phys0
    /\ cache = <<>>
    /\ acl = AclOff
    /\ last = Mounted
    /\ q = [fn |-> "mkdir", calls |-> [t \in Threads |-> Idle]]

\* the host calls mkdir(path) on thread t
MkdirEnter(t, path) ==
    /\ q.calls[t].pc = "idle"
    /\ q' = [q EXCEPT !.calls[t] = [Idle EXCEPT !.pc = "test", !.path = path]]
    /\ UNCHANGED <<phys, cache, acl, last>>

\* thread t runs the embryo test and the loop and ACL check of _birth_path
MkdirTest(t) ==
    /\ q.calls[t].pc = "test"
    /\ \E plan \in {BirthPlan(phys, cache, acl, q.calls[t].path)} :
        /\ cache' = CacheAfter(phys, cache, plan.tested)
        /\ IF plan.res = "birth"
           THEN /\ q' = [q EXCEPT !.calls[t].pc = "give_birth", !.calls[t].E = plan.E]
                /\ last' = last
           ELSE IF plan.res = "none"
           THEN /\ q' = [q EXCEPT !.calls[t].pc = "physical"]
                /\ last' = last
           ELSE /\ q' = [q EXCEPT !.calls[t] = Idle]
                /\ last' = [op |-> "mkdir", path |-> q.calls[t].path,
                            res |-> plan.res, E |-> plan.E]
    /\ UNCHANGED <<phys, acl>>

\* thread t enters give_birth: source found and validated, the parent of
\* the target and the target directory made, the entries to copy listed
GiveBirthBegin(t) ==
    /\ q.calls[t].pc = "give_birth"
    /\ \E src \in {FindTemplateSource(Join(q.calls[t].E, "/"))} :
       \E target \in {EmbryoToPhysicalPath(Join(q.calls[t].E, "/"))} :
        IF src.tag # "ok" \/ HasSymlink(src.location) \/ CopyBlocked(phys, src.location, target)
        THEN /\ q' = [q EXCEPT !.calls[t] = Idle]
             /\ last' = [op |-> "mkdir", path |-> q.calls[t].path,
                         res |-> IF src.tag # "ok" THEN src.tag
                                 ELSE IF HasSymlink(src.location) THEN "UNSAFE_TEMPLATE"
                                 ELSE "IO_ERROR",
                         E |-> q.calls[t].E]
             /\ phys' = phys
        ELSE /\ phys' = MkdirParents(phys, target)
             /\ q' = [q EXCEPT !.calls[t].pc = "copy",
                               !.calls[t].todo = CopyTree(src.location)]
             /\ last' = last
    /\ UNCHANGED <<cache, acl>>

\* thread t copies one entry of the template, a directory before what is
\* below it
CopyEntry(t) ==
    /\ q.calls[t].pc = "copy"
    /\ \E e \in q.calls[t].todo :
        /\ IsDirAt(phys, q.calls[t].E \o SubSeq(e.rel, 1, Len(e.rel) - 1))
        /\ phys' = [r \in DOMAIN phys \cup {q.calls[t].E \o e.rel} |->
                      IF r = q.calls[t].E \o e.rel THEN e.kind ELSE phys[r]]
        /\ q' = [q EXCEPT !.calls[t].todo = @ \ {e}]
    /\ UNCHANGED <<cache, acl, last>>

\* the copy of thread t is complete: give_birth and _birth_path return
GiveBirthEnd(t) ==
    /\ q.calls[t].pc = "copy"
    /\ q.calls[t].todo = {}
    /\ q' = [q EXCEPT !.calls[t].pc = "physical"]
    /\ UNCHANGED <<phys, cache, acl, last>>

\* thread t makes the requested directory and mkdir returns
MkdirPhysical(t) ==
    /\ q.calls[t].pc = "physical"
    /\ \E m \in {PhysMkdir(phys, q.calls[t].path)} :
        /\ phys' = m.phys
        /\ last' = [op |-> "mkdir", path |-> q.calls[t].path, res |-> m.res,
                    E |-> q.calls[t].E]
    /\ q' = [q EXCEPT !.calls[t] = Idle]
    /\ UNCHANGED <<cache, acl>>

NextConc ==
    \/ \E t \in Threads, path \in ConcPaths : MkdirEnter(t, path)
    \/ \E t \in Threads : MkdirTest(t)
    \/ \E t \in Threads : GiveBirthBegin(t)
    \/ \E t \in Threads : CopyEntry(t)
    \/ \E t \in Threads : GiveBirthEnd(t)
    \/ \E t \in Threads : MkdirPhysical(t)

SpecConc == InitConc /\ [][NextConc]_vars

\* thread t is inside give_birth
InFlight(t) == q.calls[t].pc = "copy"

\* C14: at no time are two threads inside give_birth for the same embryo
\* prefix, so two copies of a template into the same target never overlap.
C14_BirthExclusive ==
    \A t \in Threads, u \in Threads :
        (t # u /\ InFlight(t) /\ InFlight(u)) => q.calls[t].E # q.calls[u].E

-----------------------------------------------------------------------------
(* ACLPolicy.from_project (src/core/acl.py): the policy built from the     *)
(* folders of the templates and the sections of ACLs.md.  A Python dict is *)
(* a sequence of records [k, v] with distinct keys, in insertion order.    *)

\* d[k] = v for a dict d
DictPut(d, k, v) ==
    IF \E i \in DOMAIN d : d[i].k = k
    THEN [i \in DOMAIN d |-> IF d[i].k = k THEN [k |-> k, v |-> v] ELSE d[i]]
    ELSE Append(d, [k |-> k, v |-> v])

DictKeys(d) == {d[i].k : i \in DOMAIN d}

DictGet(d, k) == d[CHOOSE i \in DOMAIN d : d[i].k = k].v

\* _roles_from_templates: the folders of <project>/Templates/<template>
\* for the configured templates; project_templates is what that directory
\* holds
RolesFromTemplates(project_templates) == project_templates

\* _normalize_roles
NormalizeRoles(roles) == {NormalizeRole(role) : role \in {r \in roles : Strip(r) # <<>>}}

\* _normalize_rule_dict, the key of one rule
RuleKey(raw_path) ==
    LET raw_key == LStrip(raw_path)
        k1 == IF StartsWith(raw_key, <<"-", " ">>) THEN SubSeq(raw_key, 3, Len(raw_key))
              ELSE raw_key
        k2 == IF StartsWith(k1, <<"*", " ">>) THEN SubSeq(k1, 3, Len(k1)) ELSE k1
    IN  NormalizePath(k2)

\* _normalize_rule_dict, from rule i on
RECURSIVE NormalizeRuleDictFrom(_, _, _)
NormalizeRuleDictFrom(rule_dict, i, normalized) ==
    IF i > Len(rule_dict) THEN normalized
    ELSE NormalizeRuleDictFrom(rule_dict, i + 1,
            DictPut(normalized, RuleKey(rule_dict[i].k),
                    {Lower(Strip(r)) : r \in rule_dict[i].v}))

\* _normalize_rule_dict
NormalizeRuleDict(rule_dict) == NormalizeRuleDictFrom(rule_dict, 1, <<>>)

\* _normalize_permissions, from role i on
RECURSIVE NormalizePermissionsFrom(_, _, _)
NormalizePermissionsFrom(permissions, i, normalized) ==
    IF i > Len(permissions) THEN normalized
    ELSE NormalizePermissionsFrom(permissions, i + 1,
            DictPut(normalized, NormalizeRole(permissions[i].k),
                    NormalizeRuleDict(permissions[i].v)))

\* _normalize_permissions
NormalizePermissions(permissions) == NormalizePermissionsFrom(permissions, 1, <<>>)

FolderToken == <<"{", "F", "o", "l", "d", "e", "r", "}">>

FolderTokenLower == <<"{", "f", "o", "l", "d", "e", "r", "}">>

\* _expand_rules, the path of one rule: {Folder} and {folder} replaced by
\* the role
ExpandPath(role, path) ==
    NormalizePath(IF Contains(Lower(path), FolderTokenLower)
                  THEN ReplaceAll(ReplaceAll(path, FolderToken, role), FolderTokenLower, role)
                  ELSE path)

\* _expand_rules, from rule i on
RECURSIVE ExpandRulesFrom(_, _, _, _)
ExpandRulesFrom(role, rules, i, expanded) ==
    IF i > Len(rules) THEN expanded
    ELSE LET normalized_path == ExpandPath(role, rules[i].k) IN
         ExpandRulesFrom(role, rules, i + 1,
            DictPut(expanded, normalized_path,
                    IF normalized_path \in DictKeys(expanded)
                    THEN DictGet(expanded, normalized_path) \cup rules[i].v
                    ELSE rules[i].v))

\* _expand_rules
ExpandRules(role, rules) == ExpandRulesFrom(role, rules, 1, <<>>)

\* a _build_permissions that asks for the template roles first
BuildPermissionsDefaultsFirst(roles, template_roles, role_permissions, folder_defaults) ==
    [role \in roles |->
        LET role_key == NormalizeRole(role)
            rules == IF role_key \in template_roles
                     THEN ExpandRules(role_key, folder_defaults)
                     ELSE IF role_key \in DictKeys(role_permissions)
                          THEN ExpandRules(role_key, DictGet(role_permissions, role_key))
                     ELSE <<>>
        IN  {[path |-> rules[i].k, rights |-> rules[i].v] : i \in DOMAIN rules}]

\* _build_permissions: role -> the set of its PermissionRule
BuildPermissions(roles, template_roles, role_permissions, folder_defaults) ==
    [role \in roles |->
        LET role_key == NormalizeRole(role)
            rules == IF role_key \in DictKeys(role_permissions)
                     THEN ExpandRules(role_key, DictGet(role_permissions, role_key))
                     ELSE IF role_key \in template_roles
                          THEN ExpandRules(role_key, folder_defaults)
                     ELSE <<>>
        IN  {[path |-> rules[i].k, rights |-> rules[i].v] : i \in DOMAIN rules}]

SectionsSkipped == {<<"p", "e", "r", "m", "i", "s", "s", "i", "o", "n", "s">>, <<"i", "n", "h", "e", "r", "i", "t">>, <<"r", "o", "l", "e", "s">>, <<"u", "s", "e", "r", "s">>}

\* _roles_from_acls, from section i of the parsed ACLs.md on.  The payload
\* of a section is a dict of rules, or the string "list" for a section the
\* parser returned as a list.
RECURSIVE RolesFromAclsFrom(_, _, _)
RolesFromAclsFrom(data, i, acc) ==
    IF i > Len(data) THEN acc
    ELSE LET section_key == Strip(data[i].k) IN
         RolesFromAclsFrom(data, i + 1,
            IF Lower(section_key) \in SectionsSkipped \/ data[i].v = "list" THEN acc
            ELSE IF Lower(section_key) = <<"f", "o", "l", "d", "e", "r">>
                 THEN [acc EXCEPT !.folder_defaults = NormalizeRuleDict(data[i].v)]
            ELSE [acc EXCEPT !.roles = @ \cup {section_key},
                             !.role_permissions =
                                 DictPut(@, section_key, NormalizeRuleDict(data[i].v))])

\* _roles_from_acls: data is the parsed ACLs.md, <<>> without the file
RolesFromAcls(data) ==
    RolesFromAclsFrom(data, 1,
        [roles |-> {}, role_permissions |-> <<>>, folder_defaults |-> <<>>])

\* ACLPolicy.from_project, roles and permissions
FromProject(project_templates, data) ==
    With(RolesFromTemplates(project_templates), LAMBDA template_roles :
    With(RolesFromAcls(data), LAMBDA acls :
    With(NormalizeRoles(template_roles) \cup NormalizeRoles(acls.roles), LAMBDA roles :
        [roles |-> roles,
         permissions |->
            BuildPermissions(roles, NormalizeRoles(template_roles),
                NormalizePermissions(acls.role_permissions),
                NormalizeRuleDict(acls.folder_defaults))])))

-----------------------------------------------------------------------------
(* ACLPolicy.from_project applied to drawn template folders and ACLs.md    *)

nBig == <<"B">>

Change == <<"c", "h", "a", "n", "g", "e">>

\* the folders at the top of the configured template
TemplateFolderSets == SUBSET {nA, nBig, rW}

\* "- /{Folder}/: read, write"
FolderRuleRW == [k |-> <<"-", " ", "/", "{", "F", "o", "l", "d", "e", "r", "}", "/">>, v |-> {Read, Write}]

\* "- /info/: read"
FolderRuleInfo == [k |-> <<"-", " ", "/", "i", "n", "f", "o", "/">>, v |-> {Read}]

\* "/{folder}: *"
FolderRuleStar == [k |-> <<"/", "{", "f", "o", "l", "d", "e", "r", "}">>, v |-> {Star}]

\* "* /{Folder}/: Read"
FolderRuleRead == [k |-> <<"*", " ", "/", "{", "F", "o", "l", "d", "e", "r", "}", "/">>, v |-> {<<"R", "e", "a", "d">>}]

\* the payloads of the Folder section of ACLs.md
FolderSections ==
    {<<FolderRuleRW>>, <<FolderRuleRW, FolderRuleInfo>>, <<FolderRuleStar>>, <<FolderRuleRead>>}

\* the role sections of ACLs.md: none, one for role w, one headed A
RoleSections ==
    {<<>>,
     <<[k |-> rW, v |-> <<[k |-> SlashStar, v |-> {Read}]>>]>>,
     <<[k |-> <<"A">>, v |-> <<[k |-> <<"/", "x">>, v |-> {Read}]>>]>>}

\* the parsed ACLs.md
AclFiles ==
    {<<[k |-> <<"F", "o", "l", "d", "e", "r">>, v |-> f]>> \o rs : f \in FolderSections, rs \in RoleSections}

\* env: the templates are in MYOS_TEMPLATES_DIR, not in <project>/Templates
InitRoles ==
    /\ phys = Phys0
    /\ cache = <<>>
    /\ acl = AclOff
    /\ last = Mounted
    /\ q \in {[fn |-> "from_project", env |-> e, dirs |-> ds, data |-> da,
               state |-> "called", policy |-> "pending"] :
                e \in BOOLEAN, ds \in TemplateFolderSets, da \in AclFiles}

FromProjectCall ==
    /\ q.fn = "from_project"
    /\ q.state = "called"
    /\ q' = [q EXCEPT !.state = "returned",
                      !.policy = FromProject(IF q.env THEN {} ELSE q.dirs, q.data)]
    /\ UNCHANGED <<phys, cache, acl, last>>

NextRoles == FromProjectCall

SpecRoles == InitRoles /\ [][NextRoles]_vars

-----------------------------------------------------------------------------
(* Properties of the policy built by from_project                          *)

\* ACLs.md has a role section for the folder D
HasRoleSection(data, D) ==
    \E i \in DOMAIN data :
        /\ Lower(Strip(data[i].k)) \notin SectionsSkipped \cup {<<"f", "o", "l", "d", "e", "r">>}
        /\ NormalizeRole(data[i].k) = NormalizeRole(D)

\* the Folder section grants the right r on /{Folder}/
FolderGrants(data, r) ==
    \E i \in DOMAIN data :
        /\ Lower(Strip(data[i].k)) = <<"f", "o", "l", "d", "e", "r">>
        /\ \E j \in DOMAIN data[i].v :
              /\ Lower(RuleKey(data[i].v[j].k)) = FolderTokenLower \/ Lower(RuleKey(data[i].v[j].k)) = Slash \o FolderTokenLower
              /\ \E g \in data[i].v[j].v : Lower(Strip(g)) \in {r, Star}

\* C15: for every folder D at the top of a configured template without a
\* role section of its own in ACLs.md, can_access(D, '/D', r) holds for every
\* right r the Folder section grants on /{Folder}/.
C15_FolderRulesForTemplateRoles ==
    Returned("from_project") =>
        \A D \in q.dirs :
            ~HasRoleSection(q.data, D) =>
                \A r \in {Read, Write, Change} :
                    FolderGrants(q.data, r) => CanAccess(q.policy, D, Slash \o D, r)

-----------------------------------------------------------------------------
(* Config parser (src/core/config/parser.py, class MarkdownConfigParser)   *)
(* A parsed item is a record [type, key, val]: a dict {key: val}, a str    *)
(* val[1], a list val, None, or the exception an unpacking raises.         *)

\* str.find(sub): the first position of sub in s (counted from 1), 0 if none
Find(s, sub) ==
    IF Contains(s, sub)
    THEN CHOOSE i \in 1..(Len(s) - Len(sub) + 1) :
            /\ SubSeq(s, i, i + Len(sub) - 1) = sub
            /\ \A j \in 1..(i - 1) : SubSeq(s, j, j + Len(sub) - 1) # sub
    ELSE 0

\* str.split(sep, 1): at most one cut, at the first occurrence of sep
SplitOnce(s, sep) ==
    IF Contains(s, sep)
    THEN <<SubSeq(s, 1, Find(s, sep) - 1),
           SubSeq(s, Find(s, sep) + Len(sep), Len(s))>>
    ELSE <<s>>

\* [item.strip() for item in s.split(',')]
StripEach(segs) == [i \in DOMAIN segs |-> Strip(segs[i])]

ItemNone == [type |-> "none", key |-> <<>>, val |-> <<>>]

ItemStr(s) == [type |-> "str", key |-> <<>>, val |-> <<s>>]

ItemList(l) == [type |-> "list", key |-> <<>>, val |-> l]

ItemDict(k, v) == [type |-> "dict", key |-> k, val |-> v]

ItemRaise == [type |-> "raise", key |-> <<>>, val |-> <<>>]

\* key, value = line.split(': ', 1) raises ValueError unless two parts come back
KeyValue(line) ==
    With(SplitOnce(line, <<":", " ">>), LAMBDA parts :
        IF Len(parts) # 2 THEN ItemRaise
        ELSE IF Contains(Strip(parts[2]), <<",">>)
             THEN ItemDict(Strip(parts[1]), StripEach(Split(Strip(parts[2]), ",")))
        ELSE ItemDict(Strip(parts[1]), <<Strip(parts[2])>>))

\* _parse_line taking every line with a colon for a key/value pair
ParseContentLoose(line) ==
    IF line = <<>> THEN ItemNone
    ELSE IF Contains(line, <<":">>) THEN KeyValue(line)
    ELSE IF StartsWith(line, <<"*", " ">>)
         THEN ItemStr(Strip(SubSeq(line, 3, Len(line))))
    ELSE IF Contains(line, <<",">>)
         THEN ItemList(StripEach(Split(line, ",")))
    ELSE IF ~Contains(line, <<" ">>) THEN ItemStr(line)
    ELSE ItemNone

\* _parse_line after the comment has been cut off
ParseContent(line) ==
    IF line = <<>> THEN ItemNone
    ELSE IF Contains(line, <<":", " ">>) THEN KeyValue(line)
    ELSE IF StartsWith(line, <<"*", " ">>)
         THEN ItemStr(Strip(SubSeq(line, 3, Len(line))))
    ELSE IF Contains(line, <<",">>)
         THEN With(StripEach(Split(line, ",")), LAMBDA items :
                IF Len(items) = 1 /\ items[1] # <<>> THEN ItemStr(items[1])
                ELSE ItemList(items))
    ELSE IF ~Contains(line, <<" ">>) THEN ItemStr(line)
    ELSE ItemNone

\* MarkdownConfigParser._parse_line
ParseLine(line) ==
    IF Contains(line, <<"#">>)
    THEN ParseContent(Strip(Split(line, "#")[1]))
    ELSE ParseContent(line)

\* result.update(item) over the dict items, in order
RECURSIVE MergeDicts(_, _)
MergeDicts(items, d) ==
    IF items = <<>> THEN d
    ELSE MergeDicts(Tail(items),
            IF Head(items).type = "dict"
            THEN DictPut(d, Head(items).key, Head(items).val) ELSE d)

\* result.extend(item) for a list, result.append(item) for anything else;
\* an element of the result is a str, or a dict item kept whole
RECURSIVE Flatten(_)
Flatten(items) ==
    IF items = <<>> THEN <<>>
    ELSE (IF Head(items).type = "list"
          THEN [i \in DOMAIN Head(items).val |-> ItemStr(Head(items).val[i])]
          ELSE <<Head(items)>>) \o Flatten(Tail(items))

HasType(items, t) == \E i \in DOMAIN items : items[i].type = t

\* MarkdownConfigParser._finalize_items: the payload of a section
FinalizeItems(items) ==
    IF items = <<>> THEN [type |-> "list", body |-> <<>>]
    ELSE IF HasType(items, "dict") /\ ~HasType(items, "str") /\ ~HasType(items, "list")
         THEN [type |-> "dict", body |-> MergeDicts(items, <<>>)]
    ELSE IF HasType(items, "str") \/ HasType(items, "list")
         THEN [type |-> "list", body |-> Flatten(items)]
    ELSE IF Len(items) = 1 /\ items[1].type = "dict"
         THEN [type |-> "dict", body |-> MergeDicts(items, <<>>)]
    ELSE [type |-> "list", body |-> items]

NoSection == [some |-> FALSE, name |-> <<>>]

ParserStart ==
    [result |-> <<>>, current_section |-> NoSection, current_items |-> <<>>,
     state |-> "SLEEPING", raised |-> FALSE]

\* if current_section is not None and current_items: result[current_section] = ...
StoreSection(st) ==
    IF st.current_section.some /\ st.current_items # <<>>
    THEN DictPut(st.result, st.current_section.name, FinalizeItems(st.current_items))
    ELSE st.result

\* if item is not None: current_items.append(item)
Collect(st, item) ==
    IF item.type = "raise" THEN [st EXCEPT !.raised = TRUE]
    ELSE IF item.type = "none" THEN st
    ELSE [st EXCEPT !.current_items = Append(@, item)]

\* a section end that stores the section and goes on parsing it
EndSectionStaysParsing(st) == [st EXCEPT !.result = StoreSection(st)]

\* the section ends: blank line, or a line _parse_line gives None for
EndSection(st) ==
    [st EXCEPT !.result = StoreSection(st), !.current_section = NoSection,
               !.state = "SLEEPING"]

IsPropertyHeader(stripped) ==
    /\ StartsWith(stripped, <<"#">>)
    /\ Contains(stripped, <<" ">>)
    /\ Contains(stripped, <<":", " ">>)
    /\ Find(stripped, <<":", " ">>) > Find(stripped, <<" ">>)

IsHeader(stripped) == StartsWith(stripped, <<"#">>) /\ Contains(stripped, <<" ">>)

\* stripped[hash_end:].strip()
SectionName(stripped) ==
    Strip(SubSeq(stripped, Find(stripped, <<" ">>), Len(stripped)))

\* the body of the loop of parse_stream, for one line of the stream
ParseStep(st, line) ==
    With(Strip(RStripCh(line, "\n")), LAMBDA stripped :
        IF st.raised THEN st
        ELSE IF IsPropertyHeader(stripped)
             THEN IF st.state = "PARSING" /\ st.current_section.some
                  THEN Collect(st, ParseLine(Strip(LStripCh(stripped, "#"))))
                  ELSE st
        ELSE IF IsHeader(stripped)
             THEN [st EXCEPT !.result = StoreSection(st),
                             !.current_section =
                                 [some |-> TRUE, name |-> SectionName(stripped)],
                             !.current_items = <<>>,
                             !.state = "PARSING"]
        ELSE IF st.state = "PARSING" /\ st.current_section.some
             THEN IF stripped = <<>> THEN EndSection(st)
                  ELSE With(ParseLine(stripped), LAMBDA item :
                          IF item.type = "none" THEN EndSection(st)
                          ELSE Collect(st, item))
        ELSE st)

RECURSIVE ParseLines(_, _)
ParseLines(st, lines) ==
    IF lines = <<>> THEN st ELSE ParseLines(ParseStep(st, Head(lines)), Tail(lines))

\* MarkdownConfigParser.parse_stream: the mapping returned, or the exception
ParseStream(lines) ==
    With(ParseLines(ParserStart, lines), LAMBDA st :
        IF st.raised THEN [raised |-> TRUE, result |-> <<>>]
        ELSE [raised |-> FALSE, result |-> StoreSection(st)])

-----------------------------------------------------------------------------
(* The parser on drawn streams                                             *)

MaxLines == 4

\* pieces of a Config.md: headers, a property in header form, key/value,
\* list item, bare token, comma list with a comment, blank, unparseable
\* lines, a comment alone, a header property that gives no item;
\* the last piece has no newline, so it joins the piece after it
LineTokens ==
    {<<"#", " ", "S", "\n">>,
     <<"#", "#", " ", "T", "\n">>,
     <<"#", "#", "#", "#", " ", "k", ":", " ", "v", "\n">>,
     <<"k", ":", " ", "a", ",", " ", "b", "\n">>,
     <<"*", " ", "x", "\n">>,
     <<"x", "\n">>,
     <<"a", ",", " ", "b", " ", "#", " ", "c", "\n">>,
     <<"\n">>,
     <<"a", " ", "b", "\n">>,
     <<"#", "\n">>,
     <<"#", " ", "#", " ", "a", ":", " ", "b", "\n">>,
     <<"k", ":", "v", "\n">>,
     <<" ", "y">>}

\* the contents of the drawn streams
Streams == {Concat(ts) : ts \in UNION {[1..n -> LineTokens] : n \in 0..MaxLines}}

\* for line in stream: the lines of the content, each with its newline
RECURSIVE LinesFrom(_, _)
LinesFrom(s, acc) ==
    IF s = <<>> THEN (IF acc = <<>> THEN <<>> ELSE <<acc>>)
    ELSE IF Head(s) = "\n" THEN <<Append(acc, "\n")>> \o LinesFrom(Tail(s), <<>>)
    ELSE LinesFrom(Tail(s), Append(acc, Head(s)))

StreamLines(content) == LinesFrom(content, <<>>)

InitParser ==
    /\ phys = Phys0
    /\ cache = <<>>
    /\ acl = AclOff
    /\ last = Mounted
    /\ q \in {[fn |-> "parse_stream", content |-> c, state |-> "called",
               out |-> "pending"] : c \in Streams}

ParseStreamCall ==
    /\ q.fn = "parse_stream"
    /\ q.state = "called"
    /\ q' = [q EXCEPT !.state = "returned",
                      !.out = ParseStream(StreamLines(q.content))]
    /\ UNCHANGED <<phys, cache, acl, last>>

NextParser == ParseStreamCall

SpecParser == InitParser /\ [][NextParser]_vars

-----------------------------------------------------------------------------
(* Properties of parse_stream                                              *)

StrippedLine(lines, i) == Strip(RStripCh(lines[i], "\n"))

PlainHeader(lines, i) ==
    IsHeader(StrippedLine(lines, i)) /\ ~IsPropertyHeader(StrippedLine(lines, i))

\* the line gives the section under way no item and ends it
Unparseable(lines, i) ==
    /\ ~IsHeader(StrippedLine(lines, i))
    /\ StrippedLine(lines, i) # <<>>
    /\ ParseLine(StrippedLine(lines, i)).type = "none"

\* line i opens a section that gets no item: the stream ends there, or the
\* next line is blank, another header, or unparseable
MalformedSection(lines, i) ==
    /\ PlainHeader(lines, i)
    /\ \/ i = Len(lines)
       \/ StrippedLine(lines, i + 1) = <<>>
       \/ PlainHeader(lines, i + 1)
       \/ Unparseable(lines, i + 1)

\* no other header of the stream opens a section of the same name
OnlyHeaderOf(lines, i) ==
    \A j \in DOMAIN lines :
        (j # i /\ PlainHeader(lines, j)) =>
            SectionName(StrippedLine(lines, j)) # SectionName(StrippedLine(lines, i))

\* a dict from section names to payloads, every payload a dict or a list
IsMapping(d) ==
    /\ \A i, j \in DOMAIN d : d[i].k = d[j].k => i = j
    /\ \A i \in DOMAIN d : d[i].v.type \in {"dict", "list"}

\* C16: parse_stream returns a mapping for every stream and never raises; a
\* section that got no item (its header is followed by the end of the stream,
\* a blank line, another header or an unparseable line) puts nothing into
\* the mapping, and no payload of the mapping is empty.
C16_ParserTotal ==
    Returned("parse_stream") =>
        /\ ~q.out.raised
        /\ IsMapping(q.out.result)
        /\ \A i \in DOMAIN q.out.result : q.out.result[i].v.body # <<>>
        /\ \A i \in DOMAIN StreamLines(q.content) :
              (MalformedSection(StreamLines(q.content), i)
                    /\ OnlyHeaderOf(StreamLines(q.content), i)) =>
                  SectionName(StrippedLine(StreamLines(q.content), i))
                      \notin DictKeys(q.out.result)

\* a stream with a section that has a payload and a section ended by an
\* unparseable line before it got an item
C16_Witness ==
    /\ Returned("parse_stream")
    /\ ~q.out.raised
    /\ q.out.result # <<>>
    /\ \E i \in DOMAIN StreamLines(q.content) :
          /\ i < Len(StreamLines(q.content))
          /\ PlainHeader(StreamLines(q.content), i)
          /\ Unparseable(StreamLines(q.content), i + 1)
          /\ OnlyHeaderOf(StreamLines(q.content), i)

-----------------------------------------------------------------------------
(* Project configuration (src/core/project.py, class ProjectConfig)        *)
(* A .MyOS directory is a function from file names to [kind, content].     *)

\* str.endswith
EndsWith(s, suf) ==
    /\ Len(suf) <= Len(s)
    /\ SubSeq(s, Len(s) - Len(suf) + 1, Len(s)) = suf

\* str.lstrip(chars): chars is a set of characters
RECURSIVE LStripChars(_, _)
LStripChars(s, chars) ==
    IF s # <<>> /\ Head(s) \in chars THEN LStripChars(Tail(s), chars) ELSE s

\* str.splitlines() of a text whose only line break is the newline
SplitLines(text) ==
    [i \in DOMAIN StreamLines(text) |->
        IF EndsWith(StreamLines(text)[i], <<"\n">>)
        THEN SubSeq(StreamLines(text)[i], 1, Len(StreamLines(text)[i]) - 1)
        ELSE StreamLines(text)[i]]

\* Path.stem: the name without its last suffix
Stem(name) ==
    IF Len(Split(name, ".")) > 1 /\ Split(name, ".")[1] # <<>>
    THEN Join(SubSeq(Split(name, "."), 1, Len(Split(name, ".")) - 1), ".")
    ELSE name

DotMd == <<".", "m", "d">>

ProjectMd == <<"P", "r", "o", "j", "e", "c", "t", ".", "m", "d">>

sInherit == <<"i", "n", "h", "e", "r", "i", "t">>

sNot == <<"n", "o", "t">>

sDynamic == <<"d", "y", "n", "a", "m", "i", "c">>

\* the loop of _parse_section_markdown over the lines up to the first blank one
RECURSIVE SectionLines(_, _)
SectionLines(lines, acc) ==
    IF lines = <<>> \/ Strip(Head(lines)) = <<>> THEN acc
    ELSE With(Strip(Head(lines)), LAMBDA line :
            SectionLines(Tail(lines),
                IF Contains(Lower(line), sInherit)
                THEN IF Contains(line, <<":">>)
                     THEN [acc EXCEPT !.inherit = Strip(SplitOnce(line, <<":">>)[2])]
                     ELSE acc
                ELSE IF StartsWith(line, <<"*">>)
                     THEN [acc EXCEPT !.items =
                              Append(@, Strip(LStripChars(line, {"*", " "})))]
                ELSE IF Contains(line, <<":">>)
                     THEN [acc EXCEPT !.items = Append(@, line)]
                ELSE acc))

\* ProjectConfig._parse_section_markdown: the items and the inherit rule of a
\* single-file section
ParseSectionMarkdown(text) ==
    With(SectionLines(SplitLines(text), [items |-> <<>>, inherit |-> <<>>]),
         LAMBDA r : [r EXCEPT !.inherit = IF @ = <<>> THEN sDynamic ELSE @])

\* MarkdownConfigParser.find_inherit on a list: the first dict item with the key
RECURSIVE FindInheritList(_)
FindInheritList(body) ==
    IF body = <<>> THEN [found |-> FALSE, val |-> <<>>]
    ELSE IF Head(body).type = "dict" /\ Head(body).key = sInherit
         THEN [found |-> TRUE, val |-> Head(body).val]
    ELSE FindInheritList(Tail(body))

\* MarkdownConfigParser.find_inherit: the value list, or None (found FALSE)
FindInherit(section_data) ==
    IF section_data.type = "dict"
    THEN IF sInherit \in DictKeys(section_data.body)
         THEN [found |-> TRUE, val |-> DictGet(section_data.body, sInherit)]
         ELSE [found |-> FALSE, val |-> <<>>]
    ELSE FindInheritList(section_data.body)

\* the test of create on one copied file: parsed, its section is named like
\* the file and the first inherit value is "not"
MarkedNot(name, content) ==
    With(ParseStream(StreamLines(content)), LAMBDA data :
        /\ ~data.raised
        /\ Stem(name) \in DictKeys(data.result)
        /\ With(FindInherit(DictGet(data.result, Stem(name))), LAMBDA iv :
              /\ iv.found
              /\ iv.val # <<>>
              /\ Lower(iv.val[1]) = sNot))

\* shutil.copytree(parent_myos, target_myos, symlinks=False,
\* ignore=_ignore_symlinks): every entry that is no symlink
CopyMyOS(parent_myos) ==
    [n \in {m \in DOMAIN parent_myos : parent_myos[m].kind # "link"} |-> parent_myos[n]]

\* target_myos.glob("*.md") without Project.md
ConfigFiles(myos) == {n \in DOMAIN myos : EndsWith(n, DotMd) /\ n # ProjectMd}

\* ProjectConfig.create: the .MyOS directory of the new project
CreateMyOS(parent_myos) ==
    With(CopyMyOS(parent_myos), LAMBDA target :
        [n \in DOMAIN target \ {m \in ConfigFiles(target) : MarkedNot(m, target[m].content)}
            |-> target[n]])

\* ProjectConfig.load_sections: the single-file sections of a .MyOS directory
LoadSections(myos) ==
    [n \in {m \in DOMAIN myos : EndsWith(m, DotMd) /\ Lower(m) # Lower(ProjectMd)}
        |-> ParseSectionMarkdown(myos[n].content)]

-----------------------------------------------------------------------------
(* create on drawn parent directories                                      *)

InfoMd == <<"I", "n", "f", "o", ".", "m", "d">>

DataMd == <<"D", "a", "t", "a", ".", "m", "d">>

LinkMd == <<"l", ".", "m", "d">>

HdrInfo == <<"#", " ", "I", "n", "f", "o", "\n">>

HdrData == <<"#", " ", "D", "a", "t", "a", "\n">>

LineProse == <<"a", "b", "o", "u", "t", " ", "i", "t", "\n">>

LineItem == <<"x", "\n">>

LineInheritNot == <<"#", "#", "#", "#", " ", "i", "n", "h", "e", "r", "i", "t", ":", " ", "n", "o", "t", "\n">>

LineInheritFix == <<"i", "n", "h", "e", "r", "i", "t", ":", " ", "f", "i", "x", "\n">>

\* the texts of a section file: the rule right after the header, after a line
\* of prose, after an item, after a blank line, absent, fix, under the header
\* of the other file
SectionTexts ==
    {HdrInfo \o LineInheritNot \o LineProse,
     HdrInfo \o LineProse \o LineInheritNot,
     HdrInfo \o LineItem \o LineInheritNot,
     HdrInfo \o LineItem \o <<"\n">> \o LineInheritNot,
     HdrInfo \o LineItem,
     HdrInfo \o LineInheritFix,
     HdrData \o LineInheritNot}

RegularFile(text) == [kind |-> "file", content |-> text]

\* the parent's .MyOS: Project.md, Info.md and Data.md with drawn texts or
\* absent, and a symlink or not
ParentDirs ==
    {((ProjectMd :> RegularFile(<<"#", " ", "M", "y", "O", "S", "\n">>))
        @@ [n \in (IF i = <<>> THEN {} ELSE {InfoMd}) |-> RegularFile(i)]
        @@ [n \in (IF d = <<>> THEN {} ELSE {DataMd}) |-> RegularFile(d)]
        @@ [n \in (IF l THEN {LinkMd} ELSE {}) |-> [kind |-> "link", content |-> <<>>]]) :
            i \in SectionTexts \cup {<<>>}, d \in SectionTexts \cup {<<>>}, l \in BOOLEAN}

InitCreate ==
    /\ phys = Phys0
    /\ cache = <<>>
    /\ acl = AclOff
    /\ last = Mounted
    /\ q \in {[fn |-> "create", parent |-> p, state |-> "called", child |-> <<>>] :
                p \in ParentDirs}

CreateCall ==
    /\ q.fn = "create"
    /\ q.state = "called"
    /\ q' = [q EXCEPT !.state = "returned", !.child = CreateMyOS(q.parent)]
    /\ UNCHANGED <<phys, cache, acl, last>>

NextCreate == CreateCall

SpecCreate == InitCreate /\ [][NextCreate]_vars

-----------------------------------------------------------------------------
(* Properties of create                                                    *)

\* C17: after create no section file of the new project's .MyOS declares
\* inherit: not (as load_sections reads the file), and every file of the
\* parent's .MyOS that is no symlink and declares no inherit: not is in the
\* new .MyOS with the same content.
C17_NoInheritNotInChild ==
    Returned("create") =>
        /\ \A n \in DOMAIN LoadSections(q.child) :
              LoadSections(q.child)[n].inherit # sNot
        /\ \A n \in DOMAIN q.parent :
              (/\ q.parent[n].kind = "file"
               /\ (n \in DOMAIN LoadSections(q.parent) =>
                      LoadSections(q.parent)[n].inherit # sNot)) =>
                  (n \in DOMAIN q.child /\ q.child[n] = q.parent[n])

-----------------------------------------------------------------------------
(* Propagation of a Config.md section (src/core/project.py)                *)
(* A Config.md is a record [exists, text]; config_data is the parse.       *)

sFix == <<"f", "i", "x">>

sTemplates == <<"T", "e", "m", "p", "l", "a", "t", "e", "s">>

sStyles == <<"S", "t", "y", "l", "e", "s">>

NoFile == [exists |-> FALSE, text |-> <<>>]

TextFile(text) == [exists |-> TRUE, text |-> text]

\* ProjectConfig._load_config_data: the parse of Config.md, {} without the file
LoadConfigData(config_md) ==
    IF config_md.exists /\ ~ParseStream(StreamLines(config_md.text)).raised
    THEN ParseStream(StreamLines(config_md.text)).result
    ELSE <<>>

\* ProjectConfig.get_inherit_status
GetInheritStatus(config_data, section_name) ==
    IF section_name \notin DictKeys(config_data) THEN sDynamic
    ELSE With(FindInherit(DictGet(config_data, section_name)), LAMBDA iv :
            IF ~iv.found \/ iv.val = <<>> THEN sDynamic
            ELSE IF Lower(iv.val[1]) \in {sFix, sDynamic, sNot} THEN Lower(iv.val[1])
            ELSE sDynamic)

\* ", ".join(values)
RECURSIVE JoinComma(_)
JoinComma(values) ==
    IF values = <<>> THEN <<>>
    ELSE IF Len(values) = 1 THEN values[1]
    ELSE values[1] \o <<",", " ">> \o JoinComma(Tail(values))

\* f"{key}: {value_str}\n"
KeyLine(key, values) == key \o <<":", " ">> \o JoinComma(values) \o <<"\n">>

\* the lines _save_config_data writes for a list payload
RECURSIVE RenderList(_)
RenderList(body) ==
    IF body = <<>> THEN <<>>
    ELSE (IF Head(body).type = "dict" THEN KeyLine(Head(body).key, Head(body).val)
          ELSE Head(body).val[1] \o <<"\n">>) \o RenderList(Tail(body))

\* the lines _save_config_data writes for a dict payload
RECURSIVE RenderDict(_)
RenderDict(body) ==
    IF body = <<>> THEN <<>>
    ELSE KeyLine(Head(body).k, Head(body).v) \o RenderDict(Tail(body))

RECURSIVE RenderSections(_)
RenderSections(config_data) ==
    IF config_data = <<>> THEN <<>>
    ELSE <<"#", " ">> \o Head(config_data).k \o <<"\n">>
         \o (IF Head(config_data).v.type = "list"
             THEN RenderList(Head(config_data).v.body)
             ELSE RenderDict(Head(config_data).v.body))
         \o <<"\n">> \o RenderSections(Tail(config_data))

\* ProjectConfig._save_config_data: the Config.md written for config_data
SaveConfigData(config_data) ==
    IF config_data = <<>> THEN NoFile ELSE TextFile(RenderSections(config_data))

\* ProjectConfig._update_from_parent: the result and the child's Config.md
UpdateFromParent(child_md, parent_data, section_name, dry_run) ==
    IF section_name \notin DictKeys(parent_data)
    THEN [result |-> "False", config_md |-> child_md]
    ELSE IF dry_run THEN [result |-> "True", config_md |-> child_md]
    ELSE [result |-> "True",
          config_md |-> SaveConfigData(DictPut(LoadConfigData(child_md), section_name,
                                               DictGet(parent_data, section_name)))]

\* propagate_config without the test of the child's inherit status
PropagateToNoSkip(child_md, parent_data, section_name, dry_run) ==
    UpdateFromParent(child_md, parent_data, section_name, dry_run)

\* ProjectConfig.propagate_config for one child: what results[child] becomes
\* and the child's Config.md afterwards
PropagateTo(child_md, parent_data, section_name, dry_run) ==
    IF GetInheritStatus(LoadConfigData(child_md), section_name) = sFix
    THEN [result |-> "skipped_fix", config_md |-> child_md]
    ELSE UpdateFromParent(child_md, parent_data, section_name, dry_run)

-----------------------------------------------------------------------------
(* propagate_config on a drawn parent with two child projects              *)

ChildNames == {"c1", "c2"}

\* the parent's Config.md: two sections with rules, one section, a list, a
\* list whose first item has a blank inside, no file
ParentConfigs ==
    {TextFile(<<"#", " ", "T", "e", "m", "p", "l", "a", "t", "e", "s", "\n", "i", "n", "h", "e", "r", "i", "t", ":", " ", "d", "y", "n", "a", "m", "i", "c", "\n", "i", "t", "e", "m", "s", ":", " ", "a", ",", " ", "b", "\n", "\n", "#", " ", "S", "t", "y", "l", "e", "s", "\n", "i", "n", "h", "e", "r", "i", "t", ":", " ", "f", "i", "x", "\n", "i", "t", "e", "m", "s", ":", " ", "d", "\n">>),
     TextFile(<<"#", " ", "S", "t", "y", "l", "e", "s", "\n", "i", "t", "e", "m", "s", ":", " ", "d", "\n">>),
     TextFile(<<"#", " ", "T", "e", "m", "p", "l", "a", "t", "e", "s", "\n", "a", "\n", "b", "\n">>),
     TextFile(<<"#", " ", "T", "e", "m", "p", "l", "a", "t", "e", "s", "\n", "*", " ", "m", "y", " ", "w", "e", "b", "\n", "*", " ", "b", "\n">>),
     NoFile}

\* the child's Config.md: fix, dynamic, fix as a header property after an item,
\* the rule after a blank line (not read), FIX in upper case, no file
ChildConfigs ==
    {TextFile(<<"#", " ", "T", "e", "m", "p", "l", "a", "t", "e", "s", "\n", "i", "n", "h", "e", "r", "i", "t", ":", " ", "f", "i", "x", "\n", "i", "t", "e", "m", "s", ":", " ", "c", "\n">>),
     TextFile(<<"#", " ", "T", "e", "m", "p", "l", "a", "t", "e", "s", "\n", "i", "n", "h", "e", "r", "i", "t", ":", " ", "d", "y", "n", "a", "m", "i", "c", "\n", "i", "t", "e", "m", "s", ":", " ", "c", "\n">>),
     TextFile(<<"#", " ", "T", "e", "m", "p", "l", "a", "t", "e", "s", "\n", "c", "\n", "#", "#", "#", "#", " ", "i", "n", "h", "e", "r", "i", "t", ":", " ", "f", "i", "x", "\n", "\n", "#", " ", "S", "t", "y", "l", "e", "s", "\n", "e", "\n">>),
     TextFile(<<"#", " ", "T", "e", "m", "p", "l", "a", "t", "e", "s", "\n", "c", "\n", "\n", "#", "#", "#", "#", " ", "i", "n", "h", "e", "r", "i", "t", ":", " ", "f", "i", "x", "\n">>),
     TextFile(<<"#", " ", "S", "t", "y", "l", "e", "s", "\n", "i", "n", "h", "e", "r", "i", "t", ":", " ", "F", "I", "X", "\n">>),
     NoFile}

PropagateSections == {sTemplates, sStyles}

InitPropagate ==
    /\ phys = Phys0
    /\ cache = <<>>
    /\ acl = AclOff
    /\ last = Mounted
    /\ q \in {[fn |-> "propagate_config", parent |-> p, children |-> cs,
               section |-> <<>>, dry_run |-> FALSE,
               results |-> [c \in ChildNames |-> "-"]] :
                p \in ParentConfigs, cs \in [ChildNames -> ChildConfigs]}

\* one call parent.propagate_config(section_name, dry_run); results[c] is "-"
\* when the returned dict has no entry for the child
PropagateConfig(section_name, dry_run) ==
    /\ q.fn = "propagate_config"
    /\ \E parent_data \in {LoadConfigData(q.parent)} :
         q' = [q EXCEPT
                 !.section = section_name,
                 !.dry_run = dry_run,
                 !.results =
                     IF section_name \notin DictKeys(parent_data)
                     THEN [c \in ChildNames |-> "-"]
                     ELSE [c \in ChildNames |->
                             PropagateTo(q.children[c], parent_data, section_name,
                                         dry_run).result],
                 !.children =
                     IF section_name \notin DictKeys(parent_data) THEN @
                     ELSE [c \in ChildNames |->
                             PropagateTo(q.children[c], parent_data, section_name,
                                         dry_run).config_md]]
    /\ UNCHANGED <<phys, cache, acl, last>>

NextPropagate ==
    \E section_name \in PropagateSections, dry_run \in BOOLEAN :
        PropagateConfig(section_name, dry_run)

SpecPropagate == InitPropagate /\ [][NextPropagate]_vars

-----------------------------------------------------------------------------
(* Properties of propagate_config                                          *)

ChildStatus(c, section_name) ==
    GetInheritStatus(LoadConfigData(q.children[c]), section_name)

\* C18 as stated: in every call of propagate_config(section) a child whose
\* inherit status for the section is fix is reported as skipped_fix and its
\* Config.md is left as it was.
C18_FixAlwaysReported ==
    [][\A c \in ChildNames :
          ChildStatus(c, q'.section) = sFix =>
              /\ q'.results[c] = "skipped_fix"
              /\ q'.children[c] = q.children[c]]_vars

\* C18 amended: the Config.md of a child with status fix is never changed by
\* propagate_config(section); the child is reported as skipped_fix when the
\* parent's Config.md has the section, and not reported at all when it has not.
C18_FixNeverOverwritten ==
    [][\A c \in ChildNames :
          ChildStatus(c, q'.section) = sFix =>
              /\ q'.children[c] = q.children[c]
              /\ q'.results[c] =
                    IF q'.section \in DictKeys(LoadConfigData(q.parent))
                    THEN "skipped_fix" ELSE "-"]_vars

\* a call that wrote one child's Config.md and skipped the other as fix
C18_Witness ==
    /\ q.fn = "propagate_config"
    /\ q.section = sTemplates
    /\ ~q.dry_run
    /\ q.results["c1"] = "skipped_fix"
    /\ q.results["c2"] = "True"
    /\ ChildStatus("c1", sTemplates) = sFix
    /\ DictGet(LoadConfigData(q.children["c2"]), sTemplates)
          = DictGet(LoadConfigData(q.parent), sTemplates)

-----------------------------------------------------------------------------
(* save and load of a project (src/core/project.py)                        *)
(* The .MyOS directory is a function from file names to texts; an optional *)
(* str is a record [some, val].                                            *)

MYOS_VERSION == <<"M", "y", "O", "S", " ", "v", "0", ".", "1">>

TemplatesMd == <<"T", "e", "m", "p", "l", "a", "t", "e", "s", ".", "m", "d">>

ManifestMd == <<"M", "a", "n", "i", "f", "e", "s", "t", ".", "m", "d">>

sProject == <<"P", "r", "o", "j", "e", "c", "t">>

sItems == <<"i", "t", "e", "m", "s">>

sVersion == <<"V", "e", "r", "s", "i", "o", "n">>

None == [some |-> FALSE, val |-> <<>>]

Some(s) == [some |-> TRUE, val |-> s]

\* "\n".join(f"{t}" for t in self.templates)
RECURSIVE JoinLines(_)
JoinLines(names) ==
    IF names = <<>> THEN <<>>
    ELSE IF Len(names) = 1 THEN names[1]
    ELSE names[1] \o <<"\n">> \o JoinLines(Tail(names))

\* the key/value lines save writes for self.metadata (the values are str)
RECURSIVE MetadataLines(_)
MetadataLines(metadata) ==
    IF metadata = <<>> THEN <<>>
    ELSE Head(metadata).k \o <<":", " ">> \o Head(metadata).v \o <<"\n">>
         \o MetadataLines(Tail(metadata))

\* the function f without the name n
Without(f, n) == [m \in DOMAIN f \ {n} |-> f[m]]

\* ProjectConfig.save: the files of .MyOS afterwards; version is self.version
\* after the update (the argument, else MYOS_VERSION)
SaveFiles(files, templates, version, metadata) ==
    With((IF ProjectMd \in DOMAIN files THEN files
          ELSE (ProjectMd :> <<"#", " ", "M", "y", "O", "S", " ", "P", "r", "o", "j", "e", "c", "t", "\n">>) @@ files), LAMBDA f1 :
    With((IF templates # <<>>
          THEN (TemplatesMd :> (<<"#", " ">> \o sTemplates \o <<"\n">>
                                \o JoinLines(templates) \o <<"\n">>)) @@ f1
          ELSE Without(f1, TemplatesMd)), LAMBDA f2 :
        (ManifestMd :> (<<"#", " ">> \o sProject \o <<"\n">>
                        \o (IF version # <<>>
                            THEN sVersion \o <<":", " ">> \o version \o <<"\n">>
                            ELSE <<>>)
                        \o MetadataLines(metadata))) @@ f2))

\* _load_from_myos, Templates.md -> self.templates: the items of the section
LoadTemplates(files) ==
    IF TemplatesMd \notin DOMAIN files THEN <<>>
    ELSE With(ParseStream(StreamLines(files[TemplatesMd])), LAMBDA data :
            IF data.raised \/ sTemplates \notin DictKeys(data.result) THEN <<>>
            ELSE With(DictGet(data.result, sTemplates), LAMBDA templates_data :
                    IF templates_data.type = "list" THEN templates_data.body
                    ELSE IF sItems \in DictKeys(templates_data.body)
                         THEN [i \in DOMAIN DictGet(templates_data.body, sItems) |->
                                 ItemStr(DictGet(templates_data.body, sItems)[i])]
                    ELSE <<>>))

\* self.metadata[key.lower()] = ", ".join(value), key by key
RECURSIVE LowerKeys(_, _)
LowerKeys(manifest_data, acc) ==
    IF manifest_data = <<>> THEN acc
    ELSE LowerKeys(Tail(manifest_data),
                   DictPut(acc, Lower(Head(manifest_data).k),
                           JoinComma(Head(manifest_data).v)))

\* dict.pop(key): the dict without the key
RECURSIVE DictPop(_, _)
DictPop(d, k) ==
    IF d = <<>> THEN <<>>
    ELSE IF Head(d).k = k THEN DictPop(Tail(d), k)
    ELSE <<Head(d)>> \o DictPop(Tail(d), k)

\* _load_from_myos, Manifest.md -> self.metadata and self.version
LoadManifest(files) ==
    IF ManifestMd \notin DOMAIN files THEN [metadata |-> <<>>, version |-> None]
    ELSE With(ParseStream(StreamLines(files[ManifestMd])), LAMBDA data :
            IF \/ data.raised
               \/ sProject \notin DictKeys(data.result)
               \/ DictGet(data.result, sProject).type # "dict"
            THEN [metadata |-> <<>>, version |-> None]
            ELSE With(LowerKeys(DictGet(data.result, sProject).body, <<>>), LAMBDA md :
                    IF Lower(sVersion) \in DictKeys(md)
                    THEN [metadata |-> DictPop(md, Lower(sVersion)),
                          version |-> Some(DictGet(md, Lower(sVersion)))]
                    ELSE [metadata |-> md, version |-> None]))

\* ProjectConfig(path): the attributes of a fresh object, loaded when the
\* project is valid
LoadProject(files) ==
    IF ProjectMd \in DOMAIN files
    THEN [valid |-> TRUE, templates |-> LoadTemplates(files),
          version |-> LoadManifest(files).version,
          metadata |-> LoadManifest(files).metadata]
    ELSE [valid |-> FALSE, templates |-> <<>>, version |-> None, metadata |-> <<>>]

-----------------------------------------------------------------------------
(* save and load on drawn templates, versions and metadata                 *)

MaxTemplates == 2

\* template names: two plain names and a name with a blank
SaveTemplateNames == {<<"S", "t", "a", "n", "d", "a", "r", "d">>, <<"P", "e", "r", "s", "o", "n">>, <<"M", "y", " ", "W", "e", "b">>}

SaveTemplates == UNION {[1..n -> SaveTemplateNames] : n \in 0..MaxTemplates}

SaveVersions == {None, Some(<<"M", "y", "O", "S", " ", "v", "1", ".", "0">>)}

SaveMetadata ==
    {<<>>,
     <<[k |-> <<"o", "w", "n", "e", "r">>, v |-> <<"A", "n", "n", "a">>]>>,
     <<[k |-> <<"o", "w", "n", "e", "r">>, v |-> <<"A", "n", "n", "a">>], [k |-> <<"s", "t", "a", "t", "u", "s">>, v |-> <<"a", ",", " ", "b">>]>>}

\* .MyOS before save: not there, or with the files of an earlier save
SaveDirs ==
    {<<>>,
     (ProjectMd :> <<"#", " ", "M", "y", "O", "S", " ", "P", "r", "o", "j", "e", "c", "t", "\n">>) @@ (TemplatesMd :> <<"#", " ", "T", "e", "m", "p", "l", "a", "t", "e", "s", "\n", "O", "l", "d", "\n">>) @@ (ManifestMd :> <<"#", " ", "P", "r", "o", "j", "e", "c", "t", "\n", "V", "e", "r", "s", "i", "o", "n", ":", " ", "v", "0", "\n", "o", "w", "n", "e", "r", ":", " ", "B", "o", "b", "\n">>)}

InitSave ==
    /\ phys = Phys0
    /\ cache = <<>>
    /\ acl = AclOff
    /\ last = Mounted
    /\ q \in {[fn |-> "save", templates |-> t, version |-> v, metadata |-> m,
               files |-> f, state |-> "called",
               loaded |-> LoadProject(<<>>)] :
                t \in SaveTemplates, v \in SaveVersions, m \in SaveMetadata, f \in SaveDirs}

\* config = ProjectConfig(path); config.metadata = m; config.save(t, v)
SaveCall ==
    /\ q.fn = "save"
    /\ q.state = "called"
    /\ q' = [q EXCEPT
               !.state = "saved",
               !.version = IF @.some THEN @
                           ELSE IF LoadProject(q.files).version.some
                                THEN LoadProject(q.files).version
                           ELSE Some(MYOS_VERSION),
               !.files = SaveFiles(q.files, q.templates,
                             IF q.version.some THEN q.version.val
                             ELSE IF LoadProject(q.files).version.some
                                  THEN LoadProject(q.files).version.val
                             ELSE MYOS_VERSION,
                             q.metadata)]
    /\ UNCHANGED <<phys, cache, acl, last>>

\* ProjectConfig(path) afresh
LoadCall ==
    /\ q.fn = "save"
    /\ q.state = "saved"
    /\ q' = [q EXCEPT !.state = "loaded", !.loaded = LoadProject(q.files)]
    /\ UNCHANGED <<phys, cache, acl, last>>

NextSave == SaveCall \/ LoadCall

SpecSave == InitSave /\ [][NextSave]_vars

-----------------------------------------------------------------------------
(* Properties of save and load                                             *)

DictItems(d) == {d[i] : i \in DOMAIN d}

\* C19: after save() a fresh load gives the templates saved, in their order,
\* the version saved and the metadata saved, and Project.md exists.
C19_SaveLoadRoundTrip ==
    (q.fn = "save" /\ q.state = "loaded") =>
        /\ q.loaded.valid
        /\ q.loaded.templates = [i \in DOMAIN q.templates |-> ItemStr(q.templates[i])]
        /\ q.loaded.version = q.version
        /\ DictItems(q.loaded.metadata) = DictItems(q.metadata)

-----------------------------------------------------------------------------
(* Import of a zip package (src/core/importer.py)                          *)
(* A zip is a sequence of entry names (str); a directory tree is a         *)
(* function from paths (tuples of names, relative to its root) to kinds.   *)

\* the extraction directory Path(tmpdir) / "package", as its path parts
ExtractDest == <<<<"t">>, <<"p", "a", "c", "k", "a", "g", "e">>>>

sDotDot == <<".", ".">>

\* Path.resolve() of dest / name, no symlinks below dest: the parts left when
\* '', '.' are dropped and '..' steps up
RECURSIVE ResolveFrom(_, _)
ResolveFrom(stack, parts) ==
    IF parts = <<>> THEN stack
    ELSE IF Head(parts) \in {<<>>, <<".">>} THEN ResolveFrom(stack, Tail(parts))
    ELSE IF Head(parts) = sDotDot
         THEN ResolveFrom(IF stack = <<>> THEN <<>>
                          ELSE SubSeq(stack, 1, Len(stack) - 1), Tail(parts))
    ELSE ResolveFrom(Append(stack, Head(parts)), Tail(parts))

ResolveMember(name) == ResolveFrom(ExtractDest, Split(name, "/"))

\* str(path) of an absolute path
PathStr(parts) == IF parts = <<>> THEN Slash ELSE Slash \o Join(parts, "/")

\* the two tests of _safe_extract_zip on one member name
UnsafeName(name) ==
    \/ StartsWith(name, Slash)
    \/ StartsWith(name, <<"\\">>)
    \/ Contains(name, <<":">>)

TraversalDetected(name) ==
    ~StartsWith(PathStr(ResolveMember(name)), PathStr(ExtractDest))

\* zipfile's member path below the destination: '', '.' and '..' are dropped
RECURSIVE ArcParts(_)
ArcParts(parts) ==
    IF parts = <<>> THEN <<>>
    ELSE IF Head(parts) \in {<<>>, <<".">>, sDotDot} THEN ArcParts(Tail(parts))
    ELSE <<Head(parts)>> \o ArcParts(Tail(parts))

\* ZipFile.extract(member, dest) of a file member on the tree extracted so far: the new tree,
\* or the OSError of a file where a directory is needed (or the reverse)
ExtractMember(tree, name) ==
    With(ArcParts(Split(name, "/")), LAMBDA arc :
        IF \/ arc = <<>>
           \/ \E i \in 1..(Len(arc) - 1) :
                 SubSeq(arc, 1, i) \in DOMAIN tree /\ tree[SubSeq(arc, 1, i)] = "file"
           \/ arc \in DOMAIN tree /\ tree[arc] = "dir"
        THEN [res |-> "OSError", tree |-> tree]
        ELSE [res |-> "ok",
              tree |-> (arc :> "file")
                        @@ [p \in {SubSeq(arc, 1, i) : i \in 1..(Len(arc) - 1)} |-> "dir"]
                        @@ tree])

\* _safe_extract_zip: member by member, test then extract
RECURSIVE SafeExtractZip(_, _)
SafeExtractZip(tree, names) ==
    IF names = <<>> THEN [res |-> "ok", tree |-> tree]
    ELSE IF UnsafeName(Head(names)) \/ TraversalDetected(Head(names))
         THEN [res |-> "ValueError", tree |-> tree]
    ELSE With(ExtractMember(tree, Head(names)), LAMBDA r :
            IF r.res # "ok" THEN r ELSE SafeExtractZip(r.tree, Tail(names)))

sSubtree == <<"S", "u", "b", "t", "r", "e", "e">>

\* _read_export_metadata: the value of the last 'Subtree: ' line, if any
RECURSIVE SubtreeOf(_, _)
SubtreeOf(lines, acc) ==
    IF lines = <<>> THEN acc
    ELSE SubtreeOf(Tail(lines),
            IF /\ Contains(Head(lines), <<":", " ">>)
               /\ SplitOnce(Head(lines), <<":", " ">>)[1] = sSubtree
            THEN Some(Strip(SplitOnce(Head(lines), <<":", " ">>)[2]))
            ELSE acc)

\* _validate_subtree_path: the parts of the relative path, or the ValueError
ValidateSubtreePath(subtree) ==
    With((IF StartsWith(Strip(subtree), Slash) THEN Tail(Strip(subtree))
          ELSE Strip(subtree)), LAMBDA s :
        IF StartsWith(s, Slash) \/ sDotDot \in {Split(s, "/")[i] : i \in DOMAIN Split(s, "/")}
        THEN [res |-> "ValueError", parts |-> <<>>]
        ELSE [res |-> "ok",
              parts |-> ResolveFrom(<<>>, Split(s, "/"))])

\* _copy_tree_secure into an empty target: the paths made below import_root
\* (os.walk of a file yields nothing)
CopyTreeSecure(tree, subtree_path) ==
    IF ~IsDirAt(tree, subtree_path) THEN {}
    ELSE {SubSeq(subtree_path, 1, i) : i \in 0..Len(subtree_path)}
         \cup {p \in DOMAIN tree : IsPrefix(subtree_path, p)}

\* the text of .MyOS/Project.md in the drawn packages
ExportProjectMd == <<"#", " ", "M", "y", "O", "S", " ", "P", "r", "o", "j", "e", "c", "t", "\n", "S", "u", "b", "t", "r", "e", "e", ":", " ", "/", "d", "a", "t", "a", "\n">>

ProjectMdPath == <<<<".", "M", "y", "O", "S">>, <<"P", "r", "o", "j", "e", "c", "t", ".", "m", "d">>>>

\* _import_from_folder on the extracted package, adopt mode, empty target
ImportFromFolder(tree) ==
    IF ProjectMdPath \notin DOMAIN tree THEN [res |-> "ValueError", target |-> {}]
    ELSE With(SubtreeOf(SplitLines(ExportProjectMd), None), LAMBDA subtree :
        IF ~subtree.some \/ subtree.val = <<>> THEN [res |-> "ValueError", target |-> {}]
        ELSE With(ValidateSubtreePath(subtree.val), LAMBDA sp :
            IF sp.res # "ok" THEN [res |-> "ValueError", target |-> {}]
            ELSE IF sp.parts \notin DOMAIN tree /\ sp.parts # <<>>
                 THEN [res |-> "FileNotFoundError", target |-> {}]
            ELSE [res |-> "ok", target |-> CopyTreeSecure(tree, sp.parts)]))

\* import_package on a zip: the exception or ok, and what the target holds
ImportPackage(names) ==
    With(SafeExtractZip(<<>>, names), LAMBDA x :
        IF x.res # "ok" THEN [res |-> x.res, target |-> {}]
        ELSE ImportFromFolder(x.tree))

-----------------------------------------------------------------------------
(* import_package on drawn archives                                        *)

MaxEntries == 3

\* entry names: the two files of a good package, and names that climb out,
\* name a sibling of the destination, are absolute, hold a backslash or a
\* colon, step up inside, or put a file where the package has a directory
ZipNames ==
    {<<".", "M", "y", "O", "S", "/", "P", "r", "o", "j", "e", "c", "t", ".", "m", "d">>,
     <<"d", "a", "t", "a", "/", "n", "o", "t", "e", ".", "t", "x", "t">>,
     <<".", ".", "/", "e", "v", "i", "l", ".", "t", "x", "t">>,
     <<".", ".", "/", "p", "a", "c", "k", "a", "g", "e", "2", "/", "e", "v", "i", "l", ".", "t", "x", "t">>,
     <<"/", "a", "b", "s", ".", "t", "x", "t">>,
     <<"\\", "a", "b", "s", ".", "t", "x", "t">>,
     <<"c", ":", "e", "v", "i", "l">>,
     <<"d", "a", "t", "a", "/", ".", ".", "/", ".", ".", "/", "x">>,
     <<"d", "a", "t", "a", "/", ".", ".", "/", "x">>,
     <<"d", "a", "t", "a">>}

\* the archives: up to MaxEntries entries with distinct names
Archives ==
    {ns \in UNION {[1..n -> ZipNames] : n \in 0..MaxEntries} :
        \A i, j \in DOMAIN ns : ns[i] = ns[j] => i = j}

InitImport ==
    /\ phys = Phys0
    /\ cache = <<>>
    /\ acl = AclOff
    /\ last = Mounted
    /\ q \in {[fn |-> "import_package", names |-> ns, state |-> "called",
               out |-> [res |-> "pending", target |-> {}]] : ns \in Archives}

ImportPackageCall ==
    /\ q.fn = "import_package"
    /\ q.state = "called"
    /\ q' = [q EXCEPT !.state = "returned", !.out = ImportPackage(q.names)]
    /\ UNCHANGED <<phys, cache, acl, last>>

NextImport == ImportPackageCall

SpecImport == InitImport /\ [][NextImport]_vars

-----------------------------------------------------------------------------
(* Properties of import_package                                            *)

\* the resolved member path is not the destination or a path below it
ResolvesOutside(name) == ~IsPrefix(ExtractDest, ResolveMember(name))

\* C20: an archive with an entry whose name begins with '/' or '\', holds a
\* ':' or resolves outside the extraction destination is rejected with
\* ValueError and nothing is written into the import target.
C20_UnsafeZipRejected ==
    (/\ Returned("import_package")
     /\ \E i \in DOMAIN q.names :
           UnsafeName(q.names[i]) \/ ResolvesOutside(q.names[i])) =>
        (q.out.res = "ValueError" /\ q.out.target = {})

-----------------------------------------------------------------------------
(* Properties of the birth path procedure of mkdir and create              *)

\* mkdir and create run _birth_path: is_embryo(rel_path) or
\* contains_embryos(path) is true before the call
BirthTriggered(path) ==
    IsEmbryo(phys, cache, path) \/ ContainsEmbryos(phys, cache, path).res

\* C21: whenever mkdir or create run the birth path procedure, it finds a
\* non-empty embryo prefix: the call never ends with INVALID (no embryo found
\* in path), paths whose leading segments are physical directories and whose
\* deeper segment is an embryo included.
C21_BirthPathFindsEmbryo ==
    [][(last'.op \in {"mkdir", "create"} /\ BirthTriggered(last'.path))
          => (last'.res # "INVALID" /\ last'.E # <<>>)]_vars

\* C22: with ACLs.md present, no embryo becomes a physical entry through
\* mkdir or create unless one of the caller's effective roles has the write
\* right on that embryo's own path: a caller without the write right on a
\* makes no physical entry appear at a, a right on a/b notwithstanding.
C22_NoBirthWithoutOwnRight ==
    [][\A p \in ProbePaths :
          (/\ last'.op \in {"mkdir", "create"}
           /\ acl.enabled
           /\ IsEmbryo(phys, cache, p)
           /\ p \in DOMAIN phys')
              => CanWriteEmbryo(acl, p)]_vars

\* C23: after a mkdir or create that created a physical entry at p has
\* returned, the embryo cache has no entry saying true for p, for the embryo
\* prefix E given birth to, or for any ancestor of them.
C23_CacheCoherentAfterWrite ==
    WriteSucceeded =>
        \A j \in 1..Len(last.path) :
            SubSeq(last.path, 1, j) \in DOMAIN cache => ~cache[SubSeq(last.path, 1, j)]

-----------------------------------------------------------------------------
(* Properties of the overlay on a template with a hidden folder (c/.h)     *)

Hidden(name) == name # <<>> /\ Head(name) = "."

\* C24: readdir returns no name beginning with "." other than "." and "..":
\* hidden physical entries are not listed and no hidden folder of a template
\* is listed as an embryo.
C24_NoHiddenNameListed ==
    \A L \in UnsafeListPaths : IsDirAt(phys, L) =>
        \A i \in DOMAIN Listing(L) :
            Hidden(Listing(L)[i]) => Listing(L)[i] \in {<<".">>, <<".", ".">>}

\* C25: getattr(p) returns the embryo directory stat when p is an embryo
\* (is_embryo(p) is true), the real stat when p exists physically (after a
\* successful birth of p included), and ENOENT when p is neither.
C25_GetattrThreeWay ==
    [][last'.op = "getattr" =>
          LET p == last'.path IN
          /\ IsEmbryo(phys, cache, p) => last'.res = "embryo_stat"
          /\ p \in DOMAIN phys => last'.res = "physical_stat"
          /\ (~IsEmbryo(phys, cache, p) /\ p \notin DOMAIN phys) => last'.res = "ENOENT"]_vars

-----------------------------------------------------------------------------
(* Template precedence at birth                                            *)

\* the segments of the embryo path given to give_birth
C26_Parts == SelectSeq(Split(C9_Plain, "/"), LAMBDA part : part # <<>>)

\* the configured templates, by index, that contain the embryo path
C26_Having ==
    {i \in DOMAIN template_names :
        (Append(templates_dir, template_names[i]) \o C26_Parts) \in DOMAIN WorldFS}

\* the embryo path below the first configured template that contains it
C26_First ==
    LET first == CHOOSE i \in C26_Having : \A k \in C26_Having : i <= k
    IN  Append(templates_dir, template_names[first]) \o C26_Parts

\* C26: a birth whose embryo path passes the validation copies from the
\* first configured template, in configured order, that contains the path,
\* and only from that one: below the target there is what the source has and
\* nothing else; when no configured template contains the path the birth
\* fails with NO_TEMPLATE and nothing is created.
C26_TemplatePrecedence ==
    (Returned("give_birth") /\ q.out # "INVALID_PATH") =>
        IF C26_Having = {}
        THEN q.out = "NO_TEMPLATE" /\ phys = Phys0
        ELSE LET target == EmbryoToPhysicalPath(q.arg) IN
             /\ q.out = "ok"
             /\ q.src.location = C26_First
             /\ target \in DOMAIN phys
             /\ phys[target] = WorldFS[C26_First]
             /\ \A e \in EntriesBelow(C26_First) :
                   /\ (target \o e) \in DOMAIN phys
                   /\ phys[target \o e] = WorldFS[C26_First \o e]
             /\ \A r \in DOMAIN phys \ DOMAIN Phys0 :
                   \/ IsPrefix(r, target)
                   \/ \E e \in EntriesBelow(C26_First) : r = target \o e

\* C26 witness: templates S and P both have a; the birth of a has copied
\* a/b, a/b/g and a/f of S and not a/x of P
C26_Witness ==
    /\ Returned("give_birth")
    /\ q.arg = <<"a">>
    /\ q.out = "ok"
    /\ <<nA, nB, nG>> \in DOMAIN phys
    /\ <<nA, nX>> \notin DOMAIN phys

\* C26 witness, second case: only the second template P has a/x
C26_WitnessLater ==
    /\ Returned("give_birth")
    /\ q.arg = <<"a", "/", "x">>
    /\ q.src.location = <<nT, nP, nA, nX>>
    /\ phys[<<nA, nX>>] = "file"

-----------------------------------------------------------------------------
(* Blueprint._load_embryo_tree applied to drawn template configurations.   *)
(* A tree (a dict of dicts) is the set of the paths of its nodes.          *)

\* the keys of a tree
TreeKeys(tree) == {Head(p) : p \in tree}

\* tree[key]
SubTree(tree, key) == {Tail(p) : p \in {r \in tree : Head(r) = key /\ Len(r) > 1}}

\* combined[key] = value
SetKey(key, value) == {<<key>>} \cup {<<key>> \o r : r \in value}

\* a merge in which a key of the new tree replaces the key of the combined one
MergeTreesReplace(combined, new) ==
    {p \in combined : Head(p) \notin TreeKeys(new)}
        \cup UNION {SetKey(key, SubTree(new, key)) : key \in TreeKeys(new)}

\* Blueprint._merge_trees: the combined tree after the call
RECURSIVE MergeTrees(_, _)
MergeTrees(combined, new) ==
    {p \in combined : Head(p) \notin TreeKeys(new)}
        \cup UNION {IF key \in TreeKeys(combined)
                    THEN SetKey(key, MergeTrees(SubTree(combined, key), SubTree(new, key)))
                    ELSE SetKey(key, SubTree(new, key)) : key \in TreeKeys(new)}

\* Blueprint._load_embryo_tree for the configured names, from index i on
RECURSIVE LoadEmbryoTreeFrom(_, _, _)
LoadEmbryoTreeFrom(names, i, combined_tree) ==
    IF i > Len(names) THEN combined_tree
    ELSE IF ~ExistsAt(templates_dir, <<names[i]>>)
         THEN LoadEmbryoTreeFrom(names, i + 1, combined_tree)
    ELSE LoadEmbryoTreeFrom(names, i + 1,
            MergeTrees(combined_tree, DirTree(OSResolve(templates_dir, <<names[i]>>))))

LoadEmbryoTree(names) == LoadEmbryoTreeFrom(names, 1, {})

MaxConfigured == 3

\* a template name without a directory below the templates directory
nZ == <<"Z">>

TreeTemplates == {nS, nP, nO, nZ}

TreeConfigs == UNION {[1..n -> TreeTemplates] : n \in 0..MaxConfigured}

InitTree ==
    /\ phys = Phys0
    /\ cache = <<>>
    /\ acl = AclOff
    /\ last = Mounted
    /\ q \in {[fn |-> "load_embryo_tree", names |-> ns, state |-> "called", out |-> {}] :
                ns \in TreeConfigs}

LoadEmbryoTreeCall ==
    /\ q.fn = "load_embryo_tree"
    /\ q.state = "called"
    /\ q' = [q EXCEPT !.state = "returned", !.out = LoadEmbryoTree(q.names)]
    /\ UNCHANGED <<phys, cache, acl, last>>

NextTree == LoadEmbryoTreeCall

SpecTree == InitTree /\ [][NextTree]_vars

\* the relative paths below the directories of the templates
TreeProbePaths ==
    {SubSeq(w, 3, Len(w)) : w \in {v \in DOMAIN WorldFS : Len(v) >= 3}}

\* the template named name exists and has a directory at the relative path p
HasDirectoryAt(name, p) ==
    /\ Append(templates_dir, name) \in DOMAIN WorldFS
    /\ OSResolve(Append(templates_dir, name), p) # "ENOENT"
    /\ WorldFS[OSResolve(Append(templates_dir, name), p)] = "dir"

\* C27: the embryo tree has a node at p if and only if one of the configured
\* templates exists and has a directory at p; the merge of a later template
\* removes no node of the tree of the earlier ones; the set of nodes is the
\* same for every order of the same templates; names without a template
\* directory are skipped.
C27_TreeIsUnion ==
    Returned("load_embryo_tree") =>
        /\ \A p \in TreeProbePaths \cup q.out :
              p \in q.out <=> \E i \in DOMAIN q.names : HasDirectoryAt(q.names[i], p)
        /\ \A k \in 0..Len(q.names) : LoadEmbryoTree(SubSeq(q.names, 1, k)) \subseteq q.out
        /\ \A other \in TreeConfigs :
              {other[i] : i \in DOMAIN other} = {q.names[i] : i \in DOMAIN q.names}
                  => LoadEmbryoTree(other) = q.out
        /\ q.names = template_names => q.out = embryo_tree

\* C27 witness: P, the missing Z and S have been merged in this order: a/b of
\* S is below the node a that P contributed, c/n of P is there
C27_Witness ==
    /\ Returned("load_embryo_tree")
    /\ q.names = <<nP, nZ, nS>>
    /\ <<nA, nB>> \in q.out
    /\ <<nC, nN>> \in q.out
    /\ <<nC>> \in q.out

-----------------------------------------------------------------------------
(* Further properties of the overlay                                       *)

\* C28: a mkdir or create that returns an error leaves the set of physical
\* entries as it was before the call.
C28_ErrorChangesNothing ==
    [][(last'.op \in {"mkdir", "create"} /\ last'.res # "ok") => phys' = phys]_vars

\* C29: every path is_embryo reports as an embryo can be born:
\* find_template_source returns a source for it and raises neither
\* INVALID_PATH nor NO_TEMPLATE.
C29_EmbryoHasSource ==
    \A p \in embryo_tree :
        IsEmbryo(phys, cache, p) => FindTemplateSource(Join(p, "/")).tag = "ok"

-----------------------------------------------------------------------------
(* Blueprint._resolve_acl_roles applied to drawn environments, Users       *)
(* tables and user names.  The Users table is the dict ACLPolicy.users, a  *)
(* function from the normalized user name to the set of its roles.         *)

\* ACLPolicy.roles_for_user
RolesForUser(users, username) ==
    LET user_key == Lower(Strip(username)) IN
    IF user_key \in DOMAIN users THEN users[user_key] ELSE {}

\* {r.strip().lower() for r in env_roles.split(",") if r.strip()}
EnvRoles(env_roles) ==
    {Lower(Strip(Split(env_roles, ",")[i])) :
        i \in {j \in DOMAIN Split(env_roles, ",") : Strip(Split(env_roles, ",")[j]) # <<>>}}

\* Blueprint._resolve_acl_roles; env_roles is os.environ.get("MYOS_ROLES"),
\* user is getpass.getuser()
ResolveAclRoles(env_roles, users, user) ==
    IF env_roles.some /\ env_roles.val # <<>> THEN EnvRoles(env_roles.val)
    ELSE IF users = <<>> THEN {}
    ELSE RolesForUser(users, user)

sOliver == <<"o", "l", "i", "v", "e", "r">>

sMia == <<"m", "i", "a">>

sAdmin == <<"a", "d", "m", "i", "n">>

sWorker == <<"w", "o", "r", "k", "e", "r">>

\* the values of MYOS_ROLES: unset, empty, one role, roles with blanks and
\* capitals, empty entries
EnvRoleValues ==
    {None, Some(<<>>), Some(sWorker), Some(<<"W", "o", "r", "k", "e", "r", " ", ",", " ">> \o sAdmin),
     Some(<<",">>), Some(<<" ">>), Some(sAdmin \o <<",", ",">> \o sAdmin)}

\* the Users tables of ACLs.md
UsersTables ==
    {<<>>,
     (sOliver :> {sAdmin, sWorker}),
     (sOliver :> {sAdmin, sWorker}) @@ (sMia :> {sWorker}),
     (sMia :> {})}

\* the names getpass.getuser() gives
OsUsers == {<<"O", "l", "i", "v", "e", "r">>, sMia, <<"r", "o", "o", "t">>, <<" ", "M", "I", "A">>}

InitMount ==
    /\ phys = Phys0
    /\ cache = <<>>
    /\ acl = AclOff
    /\ last = Mounted
    /\ q \in {[fn |-> "resolve_acl_roles", env_roles |-> e, users |-> us, user |-> u,
               state |-> "called", out |-> {}] :
                e \in EnvRoleValues, us \in UsersTables, u \in OsUsers}

ResolveAclRolesCall ==
    /\ q.fn = "resolve_acl_roles"
    /\ q.state = "called"
    /\ q' = [q EXCEPT !.state = "returned",
                      !.out = ResolveAclRoles(q.env_roles, q.users, q.user)]
    /\ UNCHANGED <<phys, cache, acl, last>>

NextMount == ResolveAclRolesCall

SpecMount == InitMount /\ [][NextMount]_vars

\* the entries of the comma-separated text, trimmed and lower-cased, the
\* empty ones left out
C30_Entries(text) ==
    {e \in {Lower(Strip(Split(text, ",")[i])) : i \in DOMAIN Split(text, ",")} : e # <<>>}

\* the roles of the Users-table entry whose name is the user's name without
\* regard to case, none when there is no such entry
C30_TableRoles ==
    UNION {q.users[k] : k \in {n \in DOMAIN q.users : Lower(n) = Lower(Strip(q.user))}}

\* C30: the effective roles resolved at mount are the comma-separated
\* entries of MYOS_ROLES (trimmed, lower-cased) when the variable is present,
\* whatever the Users table says; otherwise the Users-table entry of the user
\* name, looked up without regard to case; otherwise the empty set.
C30_EffectiveRoles ==
    Returned("resolve_acl_roles") =>
        q.out = (IF q.env_roles.some THEN C30_Entries(q.env_roles.val) ELSE C30_TableRoles)

\* C30 for a variable that is absent or holds a non-empty value
C30_EffectiveRolesNonEmpty ==
    (Returned("resolve_acl_roles") /\ q.env_roles # Some(<<>>)) =>
        q.out = (IF q.env_roles.some THEN C30_Entries(q.env_roles.val) ELSE C30_TableRoles)

-----------------------------------------------------------------------------
(* Further properties of propagate_config                                  *)

\* the section the call propagates is in the parent's Config.md
ParentHasSection == q'.section \in DictKeys(LoadConfigData(q.parent))

\* the child's Config.md, read back, has the section with the parent's data
Persisted(child_md, section_name) ==
    /\ section_name \in DictKeys(LoadConfigData(child_md))
    /\ DictGet(LoadConfigData(child_md), section_name)
          = DictGet(LoadConfigData(q.parent), section_name)

\* C31: after propagate_config(section, dry_run=False) on a parent whose
\* Config.md has the section, every child whose inherit status for the
\* section is not fix is reported true and its Config.md holds the section
\* with the parent's data; with dry_run=True every child has an entry in the
\* result and no child's Config.md is modified.
C31_PropagateReachesChildren ==
    [][ParentHasSection =>
          \A c \in ChildNames :
              IF q'.dry_run
              THEN q'.results[c] # "-" /\ q'.children[c] = q.children[c]
              ELSE ChildStatus(c, q'.section) # sFix =>
                      /\ q'.results[c] = "True"
                      /\ Persisted(q'.children[c], q'.section)]_vars

-----------------------------------------------------------------------------
(* parse_stream line by line: one step of the model for each pass of the   *)
(* loop over the stream                                                    *)

MaxSteps == 4

\* the line '#### inherit: v'
InheritLine == <<"#", "#", "#", "#", " ">> \o sInherit \o <<":", " ", "v", "\n">>

\* the lines of the drawn streams: two headers, a property in header form,
\* key/value, bare token, blank, whitespace only, unparseable line, a comment
\* alone
StepLines ==
    {<<"#", " ", "S", "\n">>,
     <<"#", "#", " ", "T", "\n">>,
     InheritLine,
     <<"k", ":", " ", "a", ",", " ", "b", "\n">>,
     <<"x", "\n">>,
     <<"\n">>,
     <<" ", " ", "\n">>,
     <<"a", " ", "b", "\n">>,
     <<"#", "\n">>}

InitSteps ==
    /\ phys = Phys0
    /\ cache = <<>>
    /\ acl = AclOff
    /\ last = Mounted
    /\ q \in {[fn |-> "parse_lines", lines |-> ls, i |-> 0, st |-> ParserStart] :
                ls \in UNION {[1..n -> StepLines] : n \in 0..MaxSteps}}

\* for line in stream: the next line goes through the body of the loop
ReadLine ==
    /\ q.fn = "parse_lines"
    /\ q.i < Len(q.lines)
    /\ q' = [q EXCEPT !.i = @ + 1, !.st = ParseStep(@, q.lines[q.i + 1])]
    /\ UNCHANGED <<phys, cache, acl, last>>

NextSteps == ReadLine

SpecSteps == InitSteps /\ [][NextSteps]_vars

\* the line read by the step is blank, or no header and without an item
Terminating(lines, i) == StrippedLine(lines, i) = <<>> \/ Unparseable(lines, i)

\* the result with the section under way stored under its name, the other
\* sections as they were
KeptIn(before, after) ==
    IF before.current_items = <<>> THEN after.result = before.result
    ELSE /\ before.current_section.name \in DictKeys(after.result)
         /\ DictGet(after.result, before.current_section.name)
               = FinalizeItems(before.current_items)
         /\ \A k \in DictKeys(before.result) \cup DictKeys(after.result) :
               k # before.current_section.name =>
                  /\ k \in DictKeys(before.result) /\ k \in DictKeys(after.result)
                  /\ DictGet(after.result, k) = DictGet(before.result, k)

-----------------------------------------------------------------------------
(* A property line in header form after the items of a section             *)

\* line i gives the section under way an item
ItemLine(lines, i) ==
    /\ ~IsHeader(StrippedLine(lines, i))
    /\ StrippedLine(lines, i) # <<>>
    /\ ParseLine(StrippedLine(lines, i)).type \notin {"none", "raise"}

\* lines h .. upto are a section header and one or more item lines
SectionWithItems(lines, h, upto) ==
    /\ h < upto
    /\ PlainHeader(lines, h)
    /\ \A j \in (h + 1)..upto : ItemLine(lines, j)

\* the stream read to its end gives the section opened at line h the
\* inherit value [v]
InheritFound(h) ==
    With(StoreSection(q.st), LAMBDA result :
        /\ SectionName(StrippedLine(q.lines, h)) \in DictKeys(result)
        /\ FindInherit(DictGet(result, SectionName(StrippedLine(q.lines, h))))
              = [found |-> TRUE, val |-> <<<<"v">>>>])

\* the stream is read to its end and its last line is '#### inherit: v'
ReadToInheritLine ==
    /\ q.fn = "parse_lines"
    /\ q.i = Len(q.lines)
    /\ q.i >= 3
    /\ q.lines[q.i] = InheritLine

\* the property line comes directly after the items of the section
C33_InheritAfterItems ==
    ReadToInheritLine =>
        \A h \in 1..(q.i - 2) :
            SectionWithItems(q.lines, h, q.i - 1) => InheritFound(h)

\* C33: a line '#### inherit: v' after the item lines of a section gives
\* find_inherit(parse(text)[section]) = [v], also when one whitespace-only
\* line stands between the items and the property line.
C33_InheritAttached ==
    ReadToInheritLine =>
        \A h \in 1..(q.i - 2) :
            /\ SectionWithItems(q.lines, h, q.i - 1) => InheritFound(h)
            /\ (/\ SectionWithItems(q.lines, h, q.i - 2)
                /\ StrippedLine(q.lines, q.i - 1) = <<>>) => InheritFound(h)

-----------------------------------------------------------------------------
(* load() on drawn Templates.md files                                      *)

MaxLoadLines == 3

\* lines below '# Templates': two names, the property line in header form,
\* a blank line, an items property, a list item
TemplateLines ==
    {<<"S", "\n">>,
     <<"P", "\n">>,
     InheritLine,
     <<"\n">>,
     <<"i", "t", "e", "m", "s", ":", " ", "a", ",", " ", "b", "\n">>,
     <<"*", " ", "x", "\n">>}

TemplatesMdTexts ==
    {<<"#", " ">> \o sTemplates \o <<"\n">> \o Concat(ls) :
        ls \in UNION {[1..n -> TemplateLines] : n \in 0..MaxLoadLines}}

InitLoad ==
    /\ phys = Phys0
    /\ cache = <<>>
    /\ acl = AclOff
    /\ last = Mounted
    /\ q \in {[fn |-> "load", state |-> "called",
               files |-> (ProjectMd :> <<"#", " ", "P", "\n">>) @@ (TemplatesMd :> t),
               loaded |-> LoadProject(<<>>)] : t \in TemplatesMdTexts}

\* config = ProjectConfig(path); config.load()
LoadFromMyos ==
    /\ q.fn = "load"
    /\ q.state = "called"
    /\ q' = [q EXCEPT !.state = "loaded", !.loaded = LoadProject(q.files)]
    /\ UNCHANGED <<phys, cache, acl, last>>

NextLoad == LoadFromMyos

SpecLoad == InitLoad /\ [][NextLoad]_vars

\* the Templates.md loaded has only name lines below its header
OnlyNameLines ==
    \A i \in DOMAIN StreamLines(q.files[TemplatesMd]) :
        i > 1 => ParseLine(StrippedLine(StreamLines(q.files[TemplatesMd]), i)).type = "str"

\* for the files with name lines only, the templates are strings
C34_NamesGiveNames ==
    (q.fn = "load" /\ q.state = "loaded" /\ OnlyNameLines) =>
        \A i \in DOMAIN q.loaded.templates : q.loaded.templates[i].type = "str"

\* C34: after load() every element of ProjectConfig.templates is a string,
\* whatever Templates.md the parser accepted.
C34_TemplatesAreNames ==
    (q.fn = "load" /\ q.state = "loaded") =>
        \A i \in DOMAIN q.loaded.templates : q.loaded.templates[i].type = "str"

-----------------------------------------------------------------------------
(* The target of a birth and the source it is copied from                  *)

\* the source found, relative to its template directory
C35_SourceRel ==
    SubSeq(q.src.location, Len(templates_dir) + 2, Len(q.src.location))

\* the births of the embryo paths that need no decoding and no
\* normalization put the target where the source is in its template
C35_PlainTargetMirrorsSource ==
    (Returned("give_birth") /\ q.out = "ok" /\ Normalized(q.arg) = q.arg) =>
        EmbryoToPhysicalPath(q.arg) = C35_SourceRel

\* C35: for every embryo path give_birth accepts, the target relative to the
\* project root is the path of the template source relative to its template
\* directory.
C35_TargetMirrorsSource ==
    (Returned("give_birth") /\ q.out = "ok") =>
        EmbryoToPhysicalPath(q.arg) = C35_SourceRel

-----------------------------------------------------------------------------
(* getattr and readdir under ACLs                                          *)

\* p is an embryo the caller may not write, and get_embryos_at of its
\* parent does not return its name
OmittedEmbryo(p) ==
    /\ p # <<>>
    /\ acl.enabled
    /\ IsEmbryo(phys, cache, p)
    /\ ~CanWriteEmbryo(acl, p)
    /\ p[Len(p)] \notin GetEmbryosAt(phys, cache, acl, ParentOf(p))

\* an embryo that get_embryos_at of its parent returns has the embryo stat
C36_ListedIsRevealed ==
    [][last'.op = "getattr" =>
          LET p == last'.path IN
          (p # <<>> /\ p[Len(p)] \in GetEmbryosAt(phys, cache, acl, ParentOf(p)))
              => last'.res = "embryo_stat"]_vars

\* C36: getattr on an embryo that readdir of its parent omits, because the
\* caller has no write right on it, returns ENOENT.
C36_OmittedIsNotFound ==
    [][last'.op = "getattr" =>
          (OmittedEmbryo(last'.path) => last'.res = "ENOENT")]_vars

-----------------------------------------------------------------------------
(* Blueprint.create and write called by two threads of the FUSE host at    *)
(* once.  q.data is the content of the files of the project: "template"    *)
(* for a file as the copy of the template left it, "empty" after the       *)
(* truncating open of create, and the name of the thread whose write put   *)
(* its data there.                                                         *)

CreatePaths == {<<nA, nF>>, <<nA, nX>>}

InitWrite ==
    /\ phys = Phys0
    /\ cache = <<>>
    /\ acl = AclOff
    /\ last = Mounted
    /\ q = [fn |-> "create", calls |-> [t \in Threads |-> Idle], data |-> <<>>]

\* the host calls create(path) on thread t, which runs the embryo test and
\* the loop and ACL check of _birth_path
CreateTest(t, path) ==
    /\ q.calls[t].pc = "idle"
    /\ \E plan \in {BirthPlan(phys, cache, acl, path)} :
        /\ cache' = CacheAfter(phys, cache, plan.tested)
        /\ IF plan.res = "birth"
           THEN /\ q' = [q EXCEPT !.calls[t] =
                            [Idle EXCEPT !.pc = "give_birth", !.path = path, !.E = plan.E]]
                /\ last' = last
           ELSE IF plan.res = "none"
           THEN /\ q' = [q EXCEPT !.calls[t] = [Idle EXCEPT !.pc = "open", !.path = path]]
                /\ last' = last
           ELSE /\ q' = q
                /\ last' = [op |-> "create", path |-> path, res |-> plan.res, E |-> plan.E]
    /\ UNCHANGED <<phys, acl>>

\* thread t copies one entry of the template; the copy of a file replaces
\* the content of the file at the target
CreateCopyEntry(t) ==
    /\ q.calls[t].pc = "copy"
    /\ \E e \in q.calls[t].todo :
        /\ IsDirAt(phys, q.calls[t].E \o SubSeq(e.rel, 1, Len(e.rel) - 1))
        /\ phys' = [r \in DOMAIN phys \cup {q.calls[t].E \o e.rel} |->
                      IF r = q.calls[t].E \o e.rel THEN e.kind ELSE phys[r]]
        /\ q' = [q EXCEPT !.calls[t].todo = @ \ {e},
                          !.data = IF e.kind = "file"
                                   THEN (q.calls[t].E \o e.rel :> "template") @@ @
                                   ELSE @]
    /\ UNCHANGED <<cache, acl, last>>

\* give_birth has returned or there was no birth: os.open of create
CreateOpen(t) ==
    /\ \/ q.calls[t].pc = "open"
       \/ q.calls[t].pc = "copy" /\ q.calls[t].todo = {}
    /\ \E o \in {PhysOpen(phys, q.calls[t].path)} :
        /\ phys' = o.phys
        /\ IF o.res = "ok"
           THEN /\ q' = [q EXCEPT !.calls[t].pc = "write",
                                  !.data = (q.calls[t].path :> "empty") @@ @]
                /\ last' = last
           ELSE /\ q' = [q EXCEPT !.calls[t] = Idle]
                /\ last' = [op |-> "create", path |-> q.calls[t].path,
                            res |-> o.res, E |-> q.calls[t].E]
    /\ UNCHANGED <<cache, acl>>

\* write(path, data, 0, fh) and release(path, fh) of thread t
WriteData(t) ==
    /\ q.calls[t].pc = "write"
    /\ q' = [q EXCEPT !.calls[t] = Idle, !.data = (q.calls[t].path :> t) @@ @]
    /\ last' = [op |-> "create", path |-> q.calls[t].path, res |-> "ok",
                E |-> q.calls[t].E]
    /\ UNCHANGED <<phys, cache, acl>>

NextWrite ==
    \/ \E t \in Threads, path \in CreatePaths : CreateTest(t, path)
    \/ \E t \in Threads : GiveBirthBegin(t)
    \/ \E t \in Threads : CreateCopyEntry(t)
    \/ \E t \in Threads : CreateOpen(t)
    \/ \E t \in Threads : WriteData(t)

SpecWrite == InitWrite /\ [][NextWrite]_vars

\* the files that hold data written through create and write
Written == {p \in DOMAIN q.data : q.data[p] \in Threads}

\* C37: no step of the copy of a birth changes the content of a file that
\* holds data written through create and write.
C37_BirthKeepsWrittenData ==
    [][\A t \in Threads :
          (q.calls[t].pc = "copy" /\ q'.calls[t].todo # q.calls[t].todo)
              => \A p \in Written : q'.data[p] = q.data[p]]_vars

-----------------------------------------------------------------------------
(* A template role with a role section of its own                          *)

\* the template folders from_project has read
C38_TemplateRoles == IF q.env THEN {} ELSE q.dirs

\* section i of ACLs.md is the role section of the folder D
C38_SectionOf(i, D) ==
    /\ Lower(Strip(q.data[i].k)) \notin SectionsSkipped \cup {<<"f", "o", "l", "d", "e", "r">>}
    /\ q.data[i].v # "list"
    /\ NormalizeRole(q.data[i].k) = NormalizeRole(D)

\* the rules written in section i, path and rights in normal form
C38_RulesOf(i) ==
    {[path |-> NormalizePath(q.data[i].v[j].k),
      rights |-> {Lower(Strip(r)) : r \in q.data[i].v[j].v}] : j \in DOMAIN q.data[i].v}

\* C38: a role that is both a folder of a configured template and the name
\* of a role section of ACLs.md has exactly the rules of that section; no
\* rule of the Folder section is added to it.
C38_ExplicitSectionWins ==
    Returned("from_project") =>
        \A D \in C38_TemplateRoles : \A i \in DOMAIN q.data :
            C38_SectionOf(i, D) =>
                q.policy.permissions[NormalizeRole(D)] = C38_RulesOf(i)

\* C38 witness: folder w in the template, a section for w with /*: read, and
\* a Folder section that would give read and write on /w
C38_Witness ==
    /\ Returned("from_project")
    /\ ~q.env
    /\ rW \in q.dirs
    /\ q.data = <<[k |-> <<"F", "o", "l", "d", "e", "r">>, v |-> <<FolderRuleRW>>],
                  [k |-> rW, v |-> <<[k |-> SlashStar, v |-> {Read}]>>]>>
    /\ q.policy.permissions[rW] = {[path |-> SlashStar, rights |-> {Read}]}

-----------------------------------------------------------------------------
(* create and propagate_config in a directory tree.  The project P is the  *)
(* root <<>>; below it are the directories d1, m and m/d2, of which d1 and *)
(* m/d2 are made projects.  q.myos gives the .MyOS directory of every      *)
(* directory that has one, q.origin the directory whose .MyOS create       *)
(* copied for a project.                                                   *)

ConfigMd == <<"C", "o", "n", "f", "i", "g", ".", "m", "d">>

ReachDirs == {<<"d1">>, <<"m", "d2">>}

\* Config.md texts: a list, a section with inherit: fix, another section
ReachTexts ==
    {<<"#", " ">> \o sTemplates \o <<"\n", "a", "\n", "b", "\n">>,
     <<"#", " ">> \o sTemplates \o <<"\n">> \o LineInheritFix \o <<"i", "t", "e", "m", "s", ":", " ", "c", "\n">>,
     <<"#", " ">> \o sStyles \o <<"\n", "d", "\n">>}

\* self.myos_dir / "Config.md" as _load_config_data reads it
ConfigOf(myos) ==
    IF ConfigMd \in DOMAIN myos THEN TextFile(myos[ConfigMd].content) ELSE NoFile

InitReach ==
    /\ phys = Phys0
    /\ cache = <<>>
    /\ acl = AclOff
    /\ last = Mounted
    /\ q \in {[fn |-> "reach", op |-> "init",
               myos |-> (<<>> :> ((ProjectMd :> RegularFile(<<"#", " ", "P", "\n">>))
                                    @@ (ConfigMd :> RegularFile(t)))),
               origin |-> <<>>, caller |-> <<>>, section |-> <<>>, dry_run |-> FALSE,
               results |-> <<>>] : t \in ReachTexts}

\* _find_parent_myos: the nearest directory above dir_path that has .MyOS
FindParentMyos(myos, dir_path) ==
    LET having == {i \in 0..(Len(dir_path) - 1) : SubSeq(dir_path, 1, i) \in DOMAIN myos}
    IN  IF having = {} THEN [found |-> FALSE, dir |-> <<>>]
        ELSE [found |-> TRUE,
              dir |-> SubSeq(dir_path, 1, CHOOSE i \in having : \A k \in having : k <= i)]

\* get_child_projects: the directories directly below path that are projects
GetChildProjects(myos, path) ==
    {d \in DOMAIN myos : Len(d) = Len(path) + 1 /\ IsPrefix(path, d) /\ ProjectMd \in DOMAIN myos[d]}

\* ProjectConfig.create(dir_path) for a directory without .MyOS
CreateProject(dir_path) ==
    /\ q.fn = "reach"
    /\ dir_path \notin DOMAIN q.myos
    /\ FindParentMyos(q.myos, dir_path).found
    /\ \E parent \in {FindParentMyos(q.myos, dir_path).dir} :
         q' = [q EXCEPT !.op = "create",
                        !.myos = (dir_path :> CreateMyOS(q.myos[parent])) @@ @,
                        !.origin = (dir_path :> parent) @@ @,
                        !.results = <<>>]
    /\ UNCHANGED <<phys, cache, acl, last>>

\* the Config.md of the project P is written anew with another text
EditConfig(text) ==
    /\ q.fn = "reach"
    /\ ConfigOf(q.myos[<<>>]) # TextFile(text)
    /\ q' = [q EXCEPT !.op = "edit",
                      !.myos[<<>>] = (ConfigMd :> RegularFile(text)) @@ @,
                      !.results = <<>>]
    /\ UNCHANGED <<phys, cache, acl, last>>

\* the .MyOS directory with Config.md as propagate_config left it
WithConfig(myos, config_md) ==
    IF config_md.exists THEN (ConfigMd :> RegularFile(config_md.text)) @@ myos ELSE myos

\* ProjectConfig(path).propagate_config(section_name, dry_run)
PropagateFrom(path, section_name, dry_run) ==
    /\ q.fn = "reach"
    /\ path \in DOMAIN q.myos
    /\ \E parent_data \in {LoadConfigData(ConfigOf(q.myos[path]))} :
       \E children \in {IF section_name \in DictKeys(parent_data)
                        THEN GetChildProjects(q.myos, path) ELSE {}} :
         q' = [q EXCEPT
                 !.op = "propagate",
                 !.caller = path,
                 !.section = section_name,
                 !.dry_run = dry_run,
                 !.results = [c \in children |->
                                 PropagateTo(ConfigOf(q.myos[c]), parent_data,
                                             section_name, dry_run).result],
                 !.myos = [d \in DOMAIN q.myos |->
                             IF d \in children
                             THEN WithConfig(q.myos[d],
                                     PropagateTo(ConfigOf(q.myos[d]), parent_data,
                                                 section_name, dry_run).config_md)
                             ELSE q.myos[d]]]
    /\ UNCHANGED <<phys, cache, acl, last>>

NextReach ==
    \/ \E dir_path \in ReachDirs : CreateProject(dir_path)
    \/ \E text \in ReachTexts : EditConfig(text)
    \/ \E path \in ReachDirs \cup {<<>>}, section_name \in PropagateSections,
          dry_run \in BOOLEAN : PropagateFrom(path, section_name, dry_run)

SpecReach == InitReach /\ [][NextReach]_vars

\* the caller of the last propagate_config has the section
CalledWithSection ==
    /\ q.fn = "reach"
    /\ q.op = "propagate"
    /\ q.section \in DictKeys(LoadConfigData(ConfigOf(q.myos[q.caller])))

\* project c is in the result map and, unless skipped as fix, holds the
\* section as the caller has it
Reached(c) ==
    /\ c \in DOMAIN q.results
    /\ (q.results[c] # "skipped_fix" /\ ~q.dry_run) =>
          /\ q.results[c] = "True"
          /\ q.section \in DictKeys(LoadConfigData(ConfigOf(q.myos[c])))
          /\ DictGet(LoadConfigData(ConfigOf(q.myos[c])), q.section)
                = DictGet(LoadConfigData(ConfigOf(q.myos[q.caller])), q.section)

\* the projects created directly below the caller are reached
C39_DirectChildrenReached ==
    CalledWithSection =>
        \A c \in DOMAIN q.origin :
            (q.origin[c] = q.caller /\ Len(c) = Len(q.caller) + 1) => Reached(c)

\* C39: after P.propagate_config(section), with the section in P's Config.md,
\* every project that create made from the .MyOS of P is in the result map
\* and, unless its inherit status is fix, has received the section.
C39_CreatedAreReached ==
    CalledWithSection =>
        \A c \in DOMAIN q.origin : q.origin[c] = q.caller => Reached(c)

-----------------------------------------------------------------------------
(* ProjectFinder.find_nearest (src/core/project.py).  An absolute path is  *)
(* the tuple of its names below the filesystem root, the root is <<>>.     *)

MaxDepth == 3

\* the directories of the drawn trees, the root included
FinderDirs == UNION {[1..n -> {nA, nB}] : n \in 0..MaxDepth}

\* the directories that may hold .MyOS/Project.md
MarkerDirs == {<<>>, <<nA>>, <<nA, nB>>, <<nA, nB, nA>>, <<nB>>}

InitFinder ==
    /\ phys = Phys0
    /\ cache = <<>>
    /\ acl = AclOff
    /\ last = Mounted
    /\ q \in {[fn |-> "find_nearest", projects |-> ps, start |-> p, current |-> p,
               state |-> "walking", out |-> None] :
                ps \in SUBSET MarkerDirs, p \in FinderDirs}

\* one pass of the loop of find_nearest: the test of the loop, the test for
\* the marker, the step to the parent
FindNearestStep ==
    /\ q.fn = "find_nearest"
    /\ q.state = "walking"
    /\ q' = IF q.current = <<>>
            THEN [q EXCEPT !.state = "returned", !.out = None]
            ELSE IF q.current \in q.projects
            THEN [q EXCEPT !.state = "returned", !.out = Some(q.current)]
            ELSE [q EXCEPT !.current = ParentOf(q.current)]
    /\ UNCHANGED <<phys, cache, acl, last>>

NextFinder == FindNearestStep

SpecFinder == InitFinder /\ [][NextFinder]_vars

\* the loop is run as long as it can be
SpecFinderFair == SpecFinder /\ WF_vars(FindNearestStep)

\* the start directory and its ancestors that hold the marker
MarkedAbove == {i \in 0..Len(q.start) : SubSeq(q.start, 1, i) \in q.projects}

\* the deepest of them
DeepestMarked == SubSeq(q.start, 1, CHOOSE i \in MarkedAbove : \A k \in MarkedAbove : k <= i)

\* find_nearest returns
C40_Terminates == <>(q.state = "returned")

\* with no marker in the filesystem root, the result is the deepest marked
\* directory among the start and its ancestors, or None without one
C40_DeepestBelowRoot ==
    (Returned("find_nearest") /\ <<>> \notin q.projects) =>
        q.out = IF MarkedAbove = {} THEN None ELSE Some(DeepestMarked)

\* C40: find_nearest(p) returns the deepest directory among p and its
\* ancestors that contains .MyOS/Project.md, and None when there is none.
C40_FindsDeepestProject ==
    Returned("find_nearest") =>
        q.out = IF MarkedAbove = {} THEN None ELSE Some(DeepestMarked)

====
